---- MODULE Spec2Model ----
(***************************************************************************)
(* A model of the school and class services of the school-management      *)
(* backend: SchoolService (src/src/school/school.service.ts) and          *)
(* ClassService (src/src/class/class.service.ts), over the database       *)
(* tables they read and write.                                             *)
(*                                                                         *)
(* Strings the code inspects (names, logos, images, usernames) are         *)
(* sequences of tokens, so that startsWith and replace(/\s+/g,'') are      *)
(* computed and not assumed.  Identifiers are positive integers, 0 stands  *)
(* for an absent reference.  A DTO is a function whose domain is the set    *)
(* of fields the caller supplied: an absent field is an absent key.        *)
(***************************************************************************)
EXTENDS Integers, Sequences, FiniteSets, TLC

VARIABLES
    schools,      \* table School: id -> row
    classes,      \* table Class: id -> row
    modules,      \* table CourseContentModule: id -> row
    joinRequests, \* table SchoolJoinRequest: the rows in the order they were written
    nextClassId,  \* id the database gives the next Class row
    nextModuleId, \* id the database gives the next CourseContentModule row
    codeSeq,      \* number of codes generateCode has handed out as fresh ones
    storage,      \* image URLs held by the upload service
    uploads,      \* number of images uploaded so far
    clock,        \* the clock: it ticks on every call that changed a table or the storage
    limit,        \* number of writing calls a behaviour explores
    calls,        \* SchoolService.create / update calls in flight, per caller
    ret,          \* what the last completed call returned or threw
    trace,        \* the database operations of the last completed call
    generated,    \* history: school id -> the plain codes generateCode gave create
    issued,       \* history: school id -> the invitation codes create stored
    setup         \* history: what the last setupAcademicStructure call built

vars == <<schools, classes, modules, joinRequests, nextClassId, nextModuleId, codeSeq, storage,
          uploads, clock, limit, calls, ret, trace, generated, issued, setup>>

-----------------------------------------------------------------------------
(* Bounds of the exploration *)

\* writing calls explored when two callers interleave SchoolService.create / update
MaxSchoolWrites == 3
\* writing calls explored over setupAcademicStructure and the class operations
MaxAcademicWrites == 2
\* writing calls explored over the ClassService operations
MaxClassWrites == 2
\* writing calls explored when every operation of both services is enabled
MaxAllWrites == 2
\* writing calls explored over one school's create, update, academic structure and
\* join requests
MaxInvitationWrites == 4
\* writing calls explored over the school directory: create, update, findAll, findOne
MaxDirectoryWrites == 2
\* writing calls explored over one school with a logo and its updates
MaxProfileWrites == 2
\* writing calls explored over the schools of creators of every role
MaxFoundingWrites == 2
\* writing calls explored over one school and the classes created for it
MaxEnrolWrites == 3
\* writing calls explored over one school and its join requests
MaxJoinWrites == 2
\* longest subject list handed to setupAcademicStructure
MaxSubjects == 2

-----------------------------------------------------------------------------
(* Strings *)

\* null in a string-valued column
NullStr == <<"\\null">>

\* s.startsWith(prefix), for a prefix that is one token
startsWith(s, prefix) == Len(s) > 0 /\ s[1] = prefix

\* a whitespace token
IsSpace(tok) == tok = " "

NotSpace(tok) == ~IsSpace(tok)

\* s.replace(/\s+/g, '')
StripSpaces(s) == SelectSeq(s, NotSpace)

\* JavaScript truthiness of a string: the empty string is falsy
Truthy(s) == s # <<>>

\* the empty DTO: no field supplied
NoFields == <<>>

Has(dto, k) == k \in DOMAIN dto

\* dto.k is truthy, for a string field
SuppliedStr(dto, k) == Has(dto, k) /\ Truthy(dto[k])

\* dto.k is truthy, for an identifier field
SuppliedId(dto, k) == Has(dto, k) /\ dto[k] # 0

-----------------------------------------------------------------------------
(* Collaborators whose code is outside src/: the utilities and the tables *)

\* generateCode() of characters.util: the code of draw n
generateCode(n) == <<"code", ToString(n)>>

\* hashCode(code) of hash.util
hashCode(code) == <<"hash">> \o code

\* generateUsername(name) of characters.util: the name without its spaces and
\* a random suffix, the suffix of draw n
generateUsername(name, n) == StripSpaces(name) \o <<"_", ToString(n)>>

\* uploaded.secure_url of the n-th upload
SecureUrl(n) == <<"https://", "cdn", ToString(n)>>

\* table User (id -> role); the services never write it
Users == (1 :> "ADMIN") @@ (2 :> "SCHOOL_ADMIN") @@ (3 :> "TEACHER") @@ (4 :> "STUDENT")

\* table Teacher (the ids); the services never write it
Teachers == {1}

\* findUnique that finds nothing
NoRow == <<>>

\* dbService.user.findUnique({ where: { id } })
FindUser(id) == IF id \in DOMAIN Users THEN [id |-> id, role |-> Users[id]] ELSE NoRow

\* dbService.teacher.findUnique({ where: { id } })
FindTeacher(id) == IF id \in Teachers THEN [id |-> id] ELSE NoRow

\* dbService.school.findUnique({ where: { id } })
FindSchool(id) == IF id \in DOMAIN schools THEN schools[id] ELSE NoRow

\* dbService.school.findUnique({ where: { username } })
FindSchoolByUsername(username) ==
    IF \E s \in DOMAIN schools : schools[s].username = username
    THEN schools[CHOOSE s \in DOMAIN schools : schools[s].username = username]
    ELSE NoRow

\* the unique index on School.username: a write of `username` to row `id`
\* (0 for a new row) is refused with P2002
SchoolUsernameConflict(id, username) ==
    \E s \in DOMAIN schools : s # id /\ schools[s].username = username

\* the unique index on Class.username
ClassUsernameConflict(id, username) ==
    \E c \in DOMAIN classes : c # id /\ classes[c].username = username

\* the unique index on Class.classCode
ClassCodeConflict(id, code) ==
    \E c \in DOMAIN classes : c # id /\ classes[c].classCode = code

-----------------------------------------------------------------------------
(* What a call did and what it gave back *)

Validate == [op |-> "validate", table |-> "-", by |-> "-"]
Lookup(table, by) == [op |-> "lookup", table |-> table, by |-> by]
Write(table) == [op |-> "write", table |-> table, by |-> "-"]

BadRequest == "BadRequestException"
NotFound == "NotFoundException"
InternalError == "InternalServerErrorException"

\* a call that returned `rows`
Returned(op, rows) == [op |-> op, status |-> "ok", message |-> "", rows |-> rows]

\* a call that threw
Thrown(op, kind, message) == [op |-> op, status |-> kind, message |-> message, rows |-> <<>>]

\* history: whether the step that ended the call changed a table
DbChanged == <<schools, classes, modules, joinRequests>>' # <<schools, classes, modules, joinRequests>>

\* history: whether the step that ended the call uploaded an image
Uploaded == uploads' # uploads

\* history: whether the step that ended the call changed what the storage holds
StorageChanged == storage' # storage

\* the call ends with `outcome`, having done the database operations `tr`
Publish(outcome, tr) ==
    /\ ret' = outcome @@ [wrote |-> DbChanged, uploaded |-> Uploaded, stored |-> StorageChanged]
    /\ trace' = tr

\* history: the arguments of a call (id 0: the method takes none) and what its
\* collaborators did during it (env; "-": the call ended before it used them)
Args(id, dto, valid, env) == [id |-> id, dto |-> dto, valid |-> valid, env |-> env]

\* the same, the outcome published with the arguments of the call
PublishFor(input, outcome, tr) == Publish(outcome @@ [input |-> input], tr)

\* before any call
NoCall == [op |-> "none", status |-> "none", message |-> "", rows |-> <<>>, wrote |-> FALSE,
           uploaded |-> FALSE, stored |-> FALSE]

\* a caller with no call in flight
Idle == [op |-> "none", pc |-> "idle", dto |-> NoFields, id |-> 0,
         username |-> <<>>, existing |-> NoRow, trace |-> <<>>]

Procs == {"p1", "p2"}

-----------------------------------------------------------------------------
(* SchoolService.create *)

InvitationFields == {"studentInvitationCode", "teacherInvitationCode",
                     "staffInvitationCode", "parentInvitationCode"}

\* the four codes create generates: draws[f] is the draw of generateCode for f
GeneratedCodes(draws) == [f \in InvitationFields |-> generateCode(draws[f])]

InvitationCodesPlainStaff(draws) ==
    [f \in InvitationFields |->
        IF f = "staffInvitationCode" THEN generateCode(draws[f])
        ELSE hashCode(generateCode(draws[f]))]

\* the four invitation codes create stores
InvitationCodes(draws) == [f \in InvitationFields |-> hashCode(generateCode(draws[f]))]

\* the columns create leaves to the database's defaults
SchoolDefaults == [academicProfile |-> NoRow, totalClasses |-> 0, totalModules |-> 0]

\* ...rest of CreateSchoolSchema and of UpdateSchoolSchema: the fields other than
\* name, creatorId, logo and username
RestOfSchoolDto(dto) ==
    [k \in (DOMAIN dto) \ {"name", "creatorId", "logo", "username"} |-> dto[k]]

\* the row dbService.school.create writes: in `data` ...rest comes last, so a field
\* of rest replaces a field of the same name written before it
NewSchool(id, dto, username, imageUrl, codes, now) ==
    [id |-> id, createdAt |-> now, updatedAt |-> now]
    @@ RestOfSchoolDto(dto)
    @@ [name |-> dto.name, creatorId |-> dto.creatorId, logo |-> imageUrl, username |-> username]
    @@ codes @@ SchoolDefaults

\* the caller's call ends: its outcome and its database operations are published
Finish(p, outcome, tr) ==
    /\ calls' = [calls EXCEPT ![p] = Idle]
    /\ Publish(outcome, tr)

\* the same, the outcome published with the arguments of the call
FinishFor(p, input, outcome, tr) == Finish(p, outcome @@ [input |-> input], tr)

SchoolCreateErrorKindConflict(code) == IF code = "P2002" THEN "ConflictException" ELSE BadRequest

\* the exception create's catch block throws for a caught error
SchoolCreateErrorKind(code) == BadRequest

\* lines 28-31: the two lookups of Promise.all
SchoolCreateLookups == <<Lookup("user", "id"), Lookup("school", "username")>>

CanCreateSchoolAnyUser(creator) == creator # NoRow

\* lines 33-35: the creator exists and is a school administrator or an administrator
CanCreateSchool(creator) == creator # NoRow /\ creator.role \in {"SCHOOL_ADMIN", "ADMIN"}

\* lines 21-39: validation, the two lookups, the creator check, the username
SchoolCreateBegin(p, valid, dto, nonce) ==
    /\ calls[p].pc = "idle"
    /\ clock < limit
    /\ UNCHANGED <<joinRequests, schools, classes, modules, nextClassId, nextModuleId, codeSeq, storage,
                   uploads, clock, limit, generated, issued, setup>>
    /\ IF ~valid
       THEN FinishFor(p, Args(0, dto, valid, "-"),
                         Thrown("School.create", BadRequest, "Invalid school data provided"),
                   <<Validate>>)
       ELSE LET creator == FindUser(dto.creatorId)
                getSchoolByUsername == FindSchoolByUsername(dto.username)
                tr == <<Validate>> \o SchoolCreateLookups
            IN  IF ~CanCreateSchool(creator)
                THEN FinishFor(p, Args(0, dto, valid, "-"),
                                  Thrown("School.create", SchoolCreateErrorKind("thrown"),
                                      "Something went wrong while creating the school"), tr)
                ELSE /\ calls' = [calls EXCEPT ![p] =
                            [op |-> "School.create", pc |-> "write", dto |-> dto, id |-> 0,
                             username |-> IF getSchoolByUsername # NoRow
                                          THEN generateUsername(dto.name, nonce)
                                          ELSE dto.username,
                             existing |-> NoRow, trace |-> tr]]
                     /\ UNCHANGED <<ret, trace>>

\* lines 40-76: the logo upload, the four codes, the write, the catch block
SchoolCreateWrite(p, env, draws) ==
    /\ calls[p].pc = "write"
    /\ calls[p].op = "School.create"
    /\ UNCHANGED <<joinRequests, classes, modules, nextClassId, nextModuleId, codeSeq, limit, setup>>
    /\ LET dto == calls[p].dto
           username == calls[p].username
           upload == Has(dto, "logo") /\ startsWith(dto.logo, "data:image")
           imageUrl == IF upload THEN SecureUrl(uploads + 1)
                       ELSE IF Has(dto, "logo") THEN dto.logo ELSE NullStr
           id == Cardinality(DOMAIN schools) + 1
           codes == InvitationCodes(draws)
           row == NewSchool(id, dto, username, imageUrl, codes, clock + 1)
           tr == Append(calls[p].trace, Write("school"))
       IN  IF upload /\ env = "uploadFails"
           THEN /\ UNCHANGED <<schools, storage, uploads, clock, generated, issued>>
                /\ FinishFor(p, Args(0, calls[p].dto, TRUE, env),
                                Thrown("School.create", SchoolCreateErrorKind("upload"),
                                    "Something went wrong while creating the school"),
                          calls[p].trace)
           ELSE /\ storage' = IF upload THEN storage \cup {imageUrl} ELSE storage
                /\ uploads' = IF upload THEN uploads + 1 ELSE uploads
                /\ IF SchoolUsernameConflict(0, username)
                   THEN /\ UNCHANGED <<schools, generated, issued>>
                        /\ clock' = IF upload THEN clock + 1 ELSE clock
                        /\ FinishFor(p, Args(0, calls[p].dto, TRUE, env),
                                        Thrown("School.create", SchoolCreateErrorKind("P2002"),
                                            "School with this username already exists."), tr)
                   ELSE IF env = "writeFails"
                   THEN /\ UNCHANGED <<schools, generated, issued>>
                        /\ clock' = IF upload THEN clock + 1 ELSE clock
                        /\ FinishFor(p, Args(0, calls[p].dto, TRUE, env),
                                        Thrown("School.create", SchoolCreateErrorKind("other"),
                                            "Something went wrong while creating the school"),
                                  tr)
                   ELSE /\ schools' = schools @@ (id :> row)
                        /\ clock' = clock + 1
                        /\ generated' = generated @@ (id :> GeneratedCodes(draws))
                        /\ issued' = issued @@ (id :> codes)
                        /\ FinishFor(p, Args(0, calls[p].dto, TRUE, env),
                                        Returned("School.create", <<row>>), tr)

-----------------------------------------------------------------------------
(* SchoolService.update *)

\* lines 192-202: the logo to store
UpdatedLogo(existingLogo, dto, uploadedUrl) ==
    IF SuppliedStr(dto, "logo")
    THEN IF startsWith(dto.logo, "data:image") THEN uploadedUrl
         ELSE IF startsWith(dto.logo, "http://") \/ startsWith(dto.logo, "https://") THEN dto.logo
         ELSE IF dto.logo = <<>> THEN NullStr
         ELSE existingLogo
    ELSE existingLogo

\* lines 204-218: dataToUpdate, the fields left undefined deleted
DataToUpdate(dto, finalUsername, imageUrl) ==
    (IF Has(dto, "name") THEN [name |-> dto.name] ELSE NoFields)
    @@ [username |-> finalUsername, logo |-> imageUrl]
    @@ RestOfSchoolDto(dto)

\* the row after dbService.<table>.update({ data }): the columns of data replaced
Updated(row, data) == [k \in DOMAIN row |-> IF k \in DOMAIN data THEN data[k] ELSE row[k]]

\* the exception update's catch block throws for a caught error
SchoolUpdateErrorKind(code) == BadRequest

\* lines 166-184: validation, the lookup of the school
SchoolUpdateBegin(p, valid, schoolId, dto) ==
    /\ calls[p].pc = "idle"
    /\ clock < limit
    /\ UNCHANGED <<joinRequests, schools, classes, modules, nextClassId, nextModuleId, codeSeq, storage,
                   uploads, clock, limit, generated, issued, setup>>
    /\ IF ~valid
       THEN FinishFor(p, Args(schoolId, dto, valid, "-"), Thrown("School.update", BadRequest,
                             "Invalid school data provided for update"), <<Validate>>)
       ELSE LET existingSchool == FindSchool(schoolId)
                tr == <<Validate, Lookup("school", "id")>>
            IN  IF existingSchool = NoRow
                THEN FinishFor(p, Args(schoolId, dto, valid, "-"),
                                  Thrown("School.update", SchoolUpdateErrorKind("thrown"),
                                      "School not found."), tr)
                ELSE /\ calls' = [calls EXCEPT ![p] =
                            [op |-> "School.update",
                             pc |-> IF SuppliedStr(dto, "username")
                                       /\ dto.username # existingSchool.username
                                    THEN "username" ELSE "write",
                             dto |-> dto, id |-> schoolId,
                             username |-> existingSchool.username,
                             existing |-> existingSchool, trace |-> tr]]
                     /\ UNCHANGED <<ret, trace>>

\* lines 185-190: the lookup of the new username
SchoolUpdateUsername(p) ==
    /\ calls[p].pc = "username"
    /\ calls[p].op = "School.update"
    /\ UNCHANGED <<joinRequests, schools, classes, modules, nextClassId, nextModuleId, codeSeq, storage,
                   uploads, clock, limit, generated, issued, setup>>
    /\ LET newUsername == calls[p].dto.username
           schoolWithNewUsername == FindSchoolByUsername(newUsername)
           tr == Append(calls[p].trace, Lookup("school", "username"))
       IN  IF schoolWithNewUsername # NoRow /\ schoolWithNewUsername.id # calls[p].id
           THEN FinishFor(p, Args(calls[p].id, calls[p].dto, TRUE, "-"),
                             Thrown("School.update", SchoolUpdateErrorKind("thrown"),
                                 "Username is already taken."), tr)
           ELSE /\ calls' = [calls EXCEPT ![p].pc = "write", ![p].username = newUsername,
                                          ![p].trace = tr]
                /\ UNCHANGED <<ret, trace>>

\* lines 192-245: the logo, dataToUpdate, the write, the catch block
SchoolUpdateWrite(p, env) ==
    /\ calls[p].pc = "write"
    /\ calls[p].op = "School.update"
    /\ UNCHANGED <<joinRequests, classes, modules, nextClassId, nextModuleId, codeSeq, limit, setup,
                   generated, issued>>
    /\ LET dto == calls[p].dto
           schoolId == calls[p].id
           existingSchool == calls[p].existing
           upload == SuppliedStr(dto, "logo") /\ startsWith(dto.logo, "data:image")
           imageUrl == UpdatedLogo(existingSchool.logo, dto, SecureUrl(uploads + 1))
           dataToUpdate == DataToUpdate(dto, calls[p].username, imageUrl)
           tr == Append(calls[p].trace, Write("school"))
       IN  IF upload /\ env = "uploadFails"
           THEN /\ UNCHANGED <<schools, storage, uploads, clock>>
                /\ FinishFor(p, Args(calls[p].id, calls[p].dto, TRUE, env),
                                Thrown("School.update", SchoolUpdateErrorKind("upload"),
                                    "Something went wrong while updating the school"),
                          calls[p].trace)
           ELSE /\ storage' = IF upload THEN storage \cup {SecureUrl(uploads + 1)} ELSE storage
                /\ uploads' = IF upload THEN uploads + 1 ELSE uploads
                /\ IF DOMAIN dataToUpdate = {}
                   THEN /\ UNCHANGED schools
                        /\ clock' = IF upload THEN clock + 1 ELSE clock
                        /\ FinishFor(p, Args(calls[p].id, calls[p].dto, TRUE, env),
                                        Returned("School.update", <<existingSchool>>), calls[p].trace)
                   ELSE IF SchoolUsernameConflict(schoolId, dataToUpdate.username)
                   THEN /\ UNCHANGED schools
                        /\ clock' = IF upload THEN clock + 1 ELSE clock
                        /\ FinishFor(p, Args(calls[p].id, calls[p].dto, TRUE, env),
                                        Thrown("School.update", SchoolUpdateErrorKind("P2002"),
                                            "School with this username already exists."), tr)
                   ELSE IF env = "writeFails"
                   THEN /\ UNCHANGED schools
                        /\ clock' = IF upload THEN clock + 1 ELSE clock
                        /\ FinishFor(p, Args(calls[p].id, calls[p].dto, TRUE, env),
                                        Thrown("School.update", SchoolUpdateErrorKind("other"),
                                            "Something went wrong while updating the school"), tr)
                   ELSE /\ schools' = [schools EXCEPT ![schoolId] =
                                Updated(@, [updatedAt |-> clock + 1] @@ dataToUpdate)]
                        /\ clock' = clock + 1
                        /\ FinishFor(p, Args(calls[p].id, calls[p].dto, TRUE, env),
                                        Returned("School.update", <<schools'[schoolId]>>), tr)

-----------------------------------------------------------------------------
(* SchoolService.findAll and findOne *)

RECURSIVE OrderByCreatedAtDesc(_)
\* orderBy: { createdAt: 'desc' }, rows of one instant by descending id
OrderByCreatedAtDesc(rows) ==
    IF rows = {} THEN <<>>
    ELSE LET first == CHOOSE r \in rows : \A q \in rows :
                          \/ q.createdAt < r.createdAt
                          \/ q.createdAt = r.createdAt /\ q.id <= r.id
         IN  <<first>> \o OrderByCreatedAtDesc(rows \ {first})

\* lines 81-89: the where clause
SchoolWhere(row, schoolType, creatorId) ==
    /\ (schoolType # "" => row.schoolType = schoolType)
    /\ (creatorId # 0 => row.creatorId = creatorId)

SafeSchoolKeepingStaffCode(row) ==
    [k \in (DOMAIN row) \ (InvitationFields \ {"staffInvitationCode"}) |-> row[k]]

\* lines 97-103: the row without its four invitation codes
SafeSchool(row) == [k \in (DOMAIN row) \ InvitationFields |-> row[k]]

\* lines 79-111
SchoolFindAll(schoolType, creatorId, env) ==
    /\ UNCHANGED <<joinRequests, schools, classes, modules, nextClassId, nextModuleId, codeSeq, storage,
                   uploads, clock, limit, calls, generated, issued, setup>>
    /\ LET found == OrderByCreatedAtDesc(
                        {schools[s] : s \in {t \in DOMAIN schools :
                                                SchoolWhere(schools[t], schoolType, creatorId)}})
       IN  IF env = "readFails"
           THEN Publish(Thrown("School.findAll", NotFound,
                               "Something went wrong while retrieving schools"),
                        <<Lookup("school", "where")>>)
           ELSE Publish(Returned("School.findAll", [i \in 1..Len(found) |-> SafeSchool(found[i])])
                        @@ [schoolType |-> schoolType, creatorId |-> creatorId],
                        <<Lookup("school", "where")>>)

\* lines 113-163
SchoolFindOne(id, username, env) ==
    /\ UNCHANGED <<joinRequests, schools, classes, modules, nextClassId, nextModuleId, codeSeq, storage,
                   uploads, clock, limit, calls, generated, issued, setup>>
    /\ IF id = 0 /\ ~Truthy(username)
       THEN Publish(Thrown("School.findOne", BadRequest,
                           "You must provide id or username to find a school"), <<Validate>>)
       ELSE LET school == IF id # 0 THEN FindSchool(id) ELSE FindSchoolByUsername(username)
                tr == <<Validate, Lookup("school", IF id # 0 THEN "id" ELSE "username")>>
            IN  IF env = "readFails"
                THEN Publish(Thrown("School.findOne", NotFound,
                                    "Something went wrong while retrieving school"), tr)
                ELSE IF school = NoRow
                THEN Publish(Thrown("School.findOne", NotFound, "School not found with identifier"), tr)
                ELSE Publish(Returned("School.findOne", <<school>>), tr)

-----------------------------------------------------------------------------
(* SchoolService.setupAcademicStructure: the generator, lines 275-427 *)

\* new Date().getFullYear()
CurrentYear == 2026

\* `${currentYear}-${currentYear + 1}`
AcademicYear == <<ToString(CurrentYear), "-", ToString(CurrentYear + 1)>>

\* dto.k ?? []
ListOf(dto, k) == IF Has(dto, k) THEN dto[k] ELSE <<>>

\* list && list.length > 0
NonEmpty(dto, k) == Has(dto, k) /\ Len(dto[k]) > 0

\* one module per subject of `subjects`, all of one type
ModulesOf(subjects, moduleType) ==
    [j \in 1..Len(subjects) |-> [title |-> subjects[j], moduleType |-> moduleType]]

\* `${level} ${school.name.replace(/\s+/g, '')} ${academicYear}`
LevelClassName(level, schoolName) ==
    <<level, " ">> \o StripSpaces(schoolName) \o <<" ">> \o AcademicYear

\* `${level} ${combination} ${school.name.replace(/\s+/g, '')} ${academicYear}`
ALevelClassName(level, combination, schoolName) ==
    <<level, " ">> \o combination \o <<" ">> \o StripSpaces(schoolName) \o <<" ">> \o AcademicYear

\* `${level} ${specializationName.replace(/\s+/g, '')} ${school.name...} ${academicYear}`
TvetClassName(level, specializationName, schoolName) ==
    <<level, " ">> \o StripSpaces(specializationName) \o <<" ">>
    \o StripSpaces(schoolName) \o <<" ">> \o AcademicYear

PrimaryLevels == <<"P1", "P2", "P3", "P4", "P5", "P6">>
OLevelLevels == <<"S1", "S2", "S3">>
ALevelLevels == <<"S4", "S5", "S6">>
TvetLevels == <<"L3", "L4", "L5">>

PrimaryClassesFiveLevels(dto, schoolName) ==
    IF NonEmpty(dto, "primarySubjectsOffered")
    THEN [i \in 1..(Len(PrimaryLevels) - 1) |->
            [track |-> "primary", key |-> <<>>,
             className |-> LevelClassName(PrimaryLevels[i], schoolName),
             modules |-> ModulesOf(dto.primarySubjectsOffered, "CORE_CONTENT")]]
    ELSE <<>>

\* lines 281-307: P1 to P6
PrimaryClasses(dto, schoolName) ==
    IF NonEmpty(dto, "primarySubjectsOffered")
    THEN [i \in 1..Len(PrimaryLevels) |->
            [track |-> "primary", key |-> <<>>,
             className |-> LevelClassName(PrimaryLevels[i], schoolName),
             modules |-> ModulesOf(dto.primarySubjectsOffered, "CORE_CONTENT")]]
    ELSE <<>>

OLevelClassesWithoutOptions(dto, schoolName) ==
    IF NonEmpty(dto, "oLevelCoreSubjects")
    THEN [i \in 1..Len(OLevelLevels) |->
            [track |-> "oLevel", key |-> <<>>,
             className |-> LevelClassName(OLevelLevels[i], schoolName),
             modules |-> ModulesOf(dto.oLevelCoreSubjects, "CORE_CONTENT")]]
    ELSE <<>>

\* lines 309-345: S1 to S3
OLevelClasses(dto, schoolName) ==
    IF NonEmpty(dto, "oLevelCoreSubjects")
    THEN [i \in 1..Len(OLevelLevels) |->
            [track |-> "oLevel", key |-> <<>>,
             className |-> LevelClassName(OLevelLevels[i], schoolName),
             modules |-> ModulesOf(dto.oLevelCoreSubjects, "CORE_CONTENT")
                         \o ModulesOf(ListOf(dto, "oLevelOptionSubjects"), "SUPPLEMENTARY")]]
    ELSE <<>>

\* lines 347-387: S4, S5, S6 for each combination, the combinations outermost
ALevelClasses(dto, schoolName) ==
    LET combinations == ListOf(dto, "aLevelSubjectCombination")
        n == Len(ALevelLevels)
    IN  [i \in 1..(Len(combinations) * n) |->
            LET combination == combinations[((i - 1) \div n) + 1]
                level == ALevelLevels[((i - 1) % n) + 1]
            IN  [track |-> "aLevel", key |-> combination,
                 className |-> ALevelClassName(level, combination, schoolName),
                 modules |-> <<[title |-> combination, moduleType |-> "CORE_CONTENT"]>>
                             \o ModulesOf(ListOf(dto, "aLevelOptionSubjects"), "SUPPLEMENTARY")]]

\* lines 389-427: L3, L4, L5 for each specialization, the levels outermost
TvetClasses(dto, schoolName) ==
    LET specializations == ListOf(dto, "tvetSpecialization")
        n == Len(specializations)
    IN  [i \in 1..(Len(TvetLevels) * n) |->
            LET level == TvetLevels[((i - 1) \div n) + 1]
                specializationName == specializations[((i - 1) % n) + 1]
            IN  [track |-> "tvet", key |-> specializationName,
                 className |-> TvetClassName(level, specializationName, schoolName),
                 modules |-> <<[title |-> specializationName, moduleType |-> "CORE_CONTENT"]>>
                             \o ModulesOf(ListOf(dto, "tvetOptionSubjects"), "SUPPLEMENTARY")]]

\* the classes and their modules in the order the four blocks push them: entry i
\* is classesToCreate[i] and modulesByClass[i] before the codes are drawn
Generated(dto, schoolName) ==
    PrimaryClasses(dto, schoolName) \o OLevelClasses(dto, schoolName)
    \o ALevelClasses(dto, schoolName) \o TvetClasses(dto, schoolName)

RECURSIVE DrawsBefore(_, _)
\* how many codes generateCode has given when entry i is reached
DrawsBefore(gen, i) ==
    IF i <= 1 THEN 0 ELSE DrawsBefore(gen, i - 1) + 1 + Len(gen[i - 1].modules)

\* classesToCreate, the codes drawn from draw `base` on
ClassesToCreate(gen, schoolId, base) ==
    [i \in 1..Len(gen) |->
        [name |-> gen[i].className,
         username |-> generateUsername(gen[i].className, base + DrawsBefore(gen, i) + 1),
         schoolId |-> schoolId,
         classCode |-> generateCode(base + DrawsBefore(gen, i) + 1),
         classType |-> "MAIN_SCHOOL_CLASS"]]

\* modulesByClass, the codes drawn from draw `base` on
ModulesByClass(gen, base) ==
    [i \in 1..Len(gen) |->
        [className |-> gen[i].className,
         modules |-> [j \in 1..Len(gen[i].modules) |->
                        [title |-> gen[i].modules[j].title,
                         moduleCode |-> generateCode(base + DrawsBefore(gen, i) + 1 + j),
                         moduleType |-> gen[i].modules[j].moduleType]]]]

-----------------------------------------------------------------------------
(* SchoolService.setupAcademicStructure: the writes, lines 429-516 *)

\* the columns a Class row gets from the database's defaults
ClassDefaults == [creatorId |-> 0, primaryTeacherId |-> 0, classImage |-> NullStr]

\* the Class row the database stores for `data`
NewClass(id, data, now) == [id |-> id, createdAt |-> now] @@ data @@ ClassDefaults

\* dbService.class.createMany({ data }): the table after it
ClassesAfterCreateMany(data, now) ==
    classes @@ [id \in nextClassId..(nextClassId + Len(data) - 1) |->
                    NewClass(id, data[id - nextClassId + 1], now)]

\* the rows of `table` that dbService.class.findMany({ where: { schoolId, name } }) returns
\* for one name of classNamesCreated
ClassesNamed(table, schoolId, name) ==
    {c \in DOMAIN table : table[c].schoolId = schoolId /\ table[c].name = name}

\* the first row of a name in classesInDb: findMany is given no orderBy, and the
\* database gives the rows by ascending or by descending id
FirstNamed(table, schoolId, name, order) ==
    LET found == ClassesNamed(table, schoolId, name)
    IN  IF found = {} THEN 0
        ELSE IF order = "asc" THEN CHOOSE c \in found : \A d \in found : c <= d
        ELSE CHOOSE c \in found : \A d \in found : c >= d

\* classesInDb.find(c => c.name === className), for every name of `names`
FirstMatches(table, schoolId, names, order) ==
    [name \in names |-> FirstNamed(table, schoolId, name, order)]

\* lines 449-450: the class a modulesByClass entry is attached to
ModuleOwner(created, find, i, className) == find[className]

\* lines 446-458: finalModuleInstancesToCreate, entry by entry
FinalModules(modulesByClass, created, find) ==
    [i \in 1..Len(modulesByClass) |->
        LET classId == ModuleOwner(created, find, i, modulesByClass[i].className)
        IN  IF classId = 0 THEN <<>>
            ELSE [j \in 1..Len(modulesByClass[i].modules) |->
                    modulesByClass[i].modules[j] @@ [classId |-> classId]]]

RECURSIVE Flatten(_)
Flatten(lists) == IF lists = <<>> THEN <<>> ELSE Head(lists) \o Flatten(Tail(lists))

RECURSIVE CountBefore(_, _)
\* the number of rows in the lists before list i
CountBefore(lists, i) == IF i <= 1 THEN 0 ELSE CountBefore(lists, i - 1) + Len(lists[i - 1])

\* dbService.courseContentModule.createMany({ data }): the table after it
ModulesAfterCreateMany(data) ==
    modules @@ [id \in nextModuleId..(nextModuleId + Len(data) - 1) |->
                    [id |-> id] @@ data[id - nextModuleId + 1]]

AcademicListFields == {"primarySubjectsOffered", "oLevelCoreSubjects", "oLevelOptionSubjects",
                       "oLevelExaminationTypes", "oLevelAssessment", "aLevelSubjectCombination",
                       "aLevelOptionSubjects", "tvetSpecialization", "tvetOptionSubjects"}

AcademicScalarFields == {"defaultGradingScaleDescription", "primaryPassMark", "aLevelPassMark"}

\* lines 468-485: academicProfileData
AcademicProfile(dto) ==
    [academicYears |-> <<>>, gradeLevels |-> <<>>, subjectAreas |-> <<>>,
     curriculumFrameworks |-> <<"REB">>]
    @@ [k \in AcademicListFields |-> ListOf(dto, k)]
    @@ [k \in AcademicScalarFields \cap DOMAIN dto |-> dto[k]]

\* lines 498-515: the exception the catch block throws for a caught error
SetupErrorKind(code) == IF code = "P2002" THEN BadRequest ELSE InternalError

\* lines 511 and 514: its message
SetupErrorMessage(code) ==
    IF code = "P2002" THEN "A unique constraint violation occurred. Please try again or check data."
    ELSE "Something went wrong while setting up the school academic structure."

SetupEnvs == {"ok", "classesP2002", "classesFail", "rereadFails", "modulesFail", "schoolFails"}

\* before any setupAcademicStructure call
NoSetup == [schoolId |-> 0, dto |-> NoFields, classesToCreate |-> <<>>,
            modulesByClass |-> <<>>, generated |-> <<>>, created |-> <<>>, written |-> <<>>]

\* lines 248-516
SetupAcademicStructure(valid, dto, env, order) ==
    /\ clock < limit
    /\ UNCHANGED <<joinRequests, storage, uploads, limit, calls, generated, issued>>
    /\ IF ~valid
       THEN /\ UNCHANGED <<schools, classes, modules, nextClassId, nextModuleId, codeSeq,
                           clock, setup>>
            /\ PublishFor(Args(0, dto, valid, env),
                          Thrown("School.setupAcademicStructure", BadRequest,
                              "Invalid school academic data provided"), <<Validate>>)
       ELSE IF FindSchool(dto.schoolId) = NoRow
       THEN /\ UNCHANGED <<schools, classes, modules, nextClassId, nextModuleId, codeSeq,
                           clock, setup>>
            /\ PublishFor(Args(0, dto, valid, env),
                          Thrown("School.setupAcademicStructure", NotFound, "School not found"),
                       <<Validate, Lookup("school", "id")>>)
       ELSE
        \E school \in {FindSchool(dto.schoolId)} :
        \E gen \in {Generated(dto, school.name)} :
        \E classesToCreate \in {ClassesToCreate(gen, school.id, codeSeq)},
           modulesByClass \in {ModulesByClass(gen, codeSeq)} :
        LET n == Len(classesToCreate)
            created == [i \in 1..n |-> nextClassId + i - 1]
            classesFail == n > 0 /\ env \in {"classesP2002", "classesFail"}
            createdClassesCount == n
            names == {classesToCreate[i].name : i \in 1..n}
            tr1 == <<Validate, Lookup("school", "id")>>
                   \o (IF n > 0 THEN <<Write("class")>> ELSE <<>>)
            tr2 == Append(tr1, Lookup("class", "where"))
        IN  /\ codeSeq' = IF classesFail THEN codeSeq ELSE codeSeq + DrawsBefore(gen, n + 1)
            /\ classes' = IF classesFail THEN classes
                          ELSE ClassesAfterCreateMany(classesToCreate, clock + 1)
            /\ nextClassId' = IF classesFail THEN nextClassId ELSE nextClassId + n
            /\ IF classesFail \/ env = "rereadFails"
               THEN /\ UNCHANGED <<schools, modules, nextModuleId>>
                    /\ clock' = IF classesFail \/ n = 0 THEN clock ELSE clock + 1
                    /\ setup' = [schoolId |-> school.id, dto |-> dto,
                                 classesToCreate |-> classesToCreate,
                                 modulesByClass |-> modulesByClass, generated |-> gen,
                                 created |-> IF classesFail THEN <<>> ELSE created,
                                 written |-> <<>>]
                    /\ PublishFor(Args(0, dto, valid, env), Thrown("School.setupAcademicStructure",
                                      SetupErrorKind(IF env = "classesP2002" /\ classesFail
                                                     THEN "P2002" ELSE "other"),
                                      SetupErrorMessage(IF env = "classesP2002" /\ classesFail
                                                        THEN "P2002" ELSE "other")),
                               IF classesFail THEN tr1 ELSE tr2)
               ELSE \E find \in {FirstMatches(classes', school.id, names, order)} :
                    \E final \in {FinalModules(modulesByClass, created, find)} :
                    \E finalModuleInstancesToCreate \in {Flatten(final)} :
                    LET m == Len(finalModuleInstancesToCreate)
                        modulesFail == m > 0 /\ env = "modulesFail"
                        createdModulesCount == m
                        written == [i \in 1..n |->
                                      [j \in 1..Len(final[i]) |->
                                          nextModuleId + CountBefore(final, i) + j - 1]]
                        tr3 == tr2 \o (IF m > 0 THEN <<Write("module")>> ELSE <<>>)
                        tr4 == Append(tr3, Write("school"))
                    IN  /\ modules' = IF modulesFail THEN modules
                                      ELSE ModulesAfterCreateMany(finalModuleInstancesToCreate)
                        /\ nextModuleId' = IF modulesFail THEN nextModuleId ELSE nextModuleId + m
                        /\ setup' = [schoolId |-> school.id, dto |-> dto,
                                     classesToCreate |-> classesToCreate,
                                     modulesByClass |-> modulesByClass,
                                     generated |-> gen, created |-> created,
                                     written |-> IF modulesFail THEN <<>> ELSE written]
                        /\ IF modulesFail \/ env = "schoolFails"
                           THEN /\ UNCHANGED schools
                                /\ clock' = IF n > 0 THEN clock + 1 ELSE clock
                                /\ PublishFor(Args(0, dto, valid, env),
                                              Thrown("School.setupAcademicStructure",
                                                  SetupErrorKind("other"),
                                                  SetupErrorMessage("other")),
                                           IF modulesFail THEN tr3 ELSE tr4)
                           ELSE /\ schools' = [schools EXCEPT ![school.id] =
                                        Updated(@, [academicProfile |-> AcademicProfile(dto),
                                                    totalClasses |-> createdClassesCount,
                                                    totalModules |-> createdModulesCount])]
                                /\ clock' = clock + 1
                                /\ PublishFor(Args(0, dto, valid, env),
                                              Returned("School.setupAcademicStructure",
                                                    <<[totalClasses |-> createdClassesCount,
                                                       totalModule |-> createdModulesCount]>>),
                                           tr4)

-----------------------------------------------------------------------------
(* ClassService.create *)

\* ...rest of CreateClassSchema: the fields other than those line 23 names
RestOfClassDto(dto) ==
    [k \in (DOMAIN dto) \ {"name", "schoolId", "creatorId", "classTeacherId", "image",
                           "username"} |-> dto[k]]

ClassCreateDataWithoutTeacher(dto, imageUrl, code, draw) ==
    [classType |-> IF Has(dto, "classType") /\ dto.classType # "" THEN dto.classType
                   ELSE "MAIN_SCHOOL_CLASS"]
    @@ RestOfClassDto(dto)
    @@ [name |-> dto.name,
        username |-> IF SuppliedStr(dto, "username") THEN dto.username
                     ELSE generateUsername(dto.name, draw),
        classImage |-> imageUrl,
        classCode |-> code]
    @@ (IF SuppliedId(dto, "schoolId") THEN [schoolId |-> dto.schoolId] ELSE [schoolId |-> 0])
    @@ (IF SuppliedId(dto, "creatorId") THEN [creatorId |-> dto.creatorId] ELSE [creatorId |-> 0])
    @@ [primaryTeacherId |-> 0]

\* lines 73-84: the data of the new row; ...rest comes after name, username,
\* classImage and classCode and before classType
ClassCreateData(dto, imageUrl, code, draw) ==
    [classType |-> IF Has(dto, "classType") /\ dto.classType # "" THEN dto.classType
                   ELSE "MAIN_SCHOOL_CLASS"]
    @@ RestOfClassDto(dto)
    @@ [name |-> dto.name,
        username |-> IF SuppliedStr(dto, "username") THEN dto.username
                     ELSE generateUsername(dto.name, draw),
        classImage |-> imageUrl,
        classCode |-> code]
    @@ (IF SuppliedId(dto, "schoolId") THEN [schoolId |-> dto.schoolId] ELSE [schoolId |-> 0])
    @@ (IF SuppliedId(dto, "creatorId") THEN [creatorId |-> dto.creatorId] ELSE [creatorId |-> 0])
    @@ (IF SuppliedId(dto, "classTeacherId") THEN [primaryTeacherId |-> dto.classTeacherId]
        ELSE [primaryTeacherId |-> 0])

\* a row without its classCode
WithoutClassCode(row) == [k \in (DOMAIN row) \ {"classCode"} |-> row[k]]

\* lines 95-96: what create returns for the created row
SafeCreatedClass(row) == WithoutClassCode(row)

ClassCreateLookupsWithUsername(dto) ==
    (IF SuppliedId(dto, "schoolId") THEN <<Lookup("school", "id")>> ELSE <<>>)
    \o (IF SuppliedId(dto, "creatorId") THEN <<Lookup("user", "id")>> ELSE <<>>)
    \o (IF SuppliedId(dto, "classTeacherId") THEN <<Lookup("teacher", "id")>> ELSE <<>>)
    \o <<Lookup("class", "username")>>

\* lines 35-65: the lookups a call that reaches its write has done
ClassCreateLookups(dto) ==
    (IF SuppliedId(dto, "schoolId") THEN <<Lookup("school", "id")>> ELSE <<>>)
    \o (IF SuppliedId(dto, "creatorId") THEN <<Lookup("user", "id")>> ELSE <<>>)
    \o (IF SuppliedId(dto, "classTeacherId") THEN <<Lookup("teacher", "id")>> ELSE <<>>)

\* the codes generateCode can give for a new class: a fresh one or one in use
ClassCodeDraws == {generateCode(codeSeq + 1)} \cup {classes[c].classCode : c \in DOMAIN classes}

\* lines 17-115
ClassCreate(valid, dto, env, code) ==
    /\ clock < limit
    /\ UNCHANGED <<joinRequests, schools, modules, nextModuleId, limit, calls, generated, issued, setup>>
    /\ LET op == "Class.create"
           lookSchool == IF SuppliedId(dto, "schoolId") THEN <<Lookup("school", "id")>> ELSE <<>>
           lookCreator == IF SuppliedId(dto, "creatorId") THEN <<Lookup("user", "id")>> ELSE <<>>
           lookTeacher == IF SuppliedId(dto, "classTeacherId")
                          THEN <<Lookup("teacher", "id")>> ELSE <<>>
           upload == SuppliedStr(dto, "image") /\ startsWith(dto.image, "data:image")
           imageUrl == IF upload THEN SecureUrl(uploads + 1)
                       ELSE IF Has(dto, "image") THEN dto.image ELSE NullStr
           data == ClassCreateData(dto, imageUrl, code, codeSeq + 1)
           row == NewClass(nextClassId, data, clock + 1)
           lookups == <<Validate>> \o ClassCreateLookups(dto)
           fail(kind, message, tr) ==
               /\ UNCHANGED <<classes, nextClassId, codeSeq, storage, uploads, clock>>
               /\ PublishFor(Args(0, dto, valid, env), Thrown(op, kind, message), tr)
       IN  IF ~valid THEN fail(BadRequest, "Invalid class data provided", <<Validate>>)
           ELSE IF ~SuppliedId(dto, "creatorId") /\ ~SuppliedId(dto, "schoolId")
                   /\ ~SuppliedId(dto, "classTeacherId")
           THEN fail(BadRequest, "Invalid class creation - missing required connections",
                     <<Validate>>)
           ELSE IF SuppliedId(dto, "schoolId") /\ FindSchool(dto.schoolId) = NoRow
           THEN fail(NotFound, "School not found", <<Validate>> \o lookSchool)
           ELSE IF SuppliedId(dto, "creatorId") /\ FindUser(dto.creatorId) = NoRow
           THEN fail(NotFound, "User not found", <<Validate>> \o lookSchool \o lookCreator)
           ELSE IF SuppliedId(dto, "creatorId")
                   /\ FindUser(dto.creatorId).role \notin {"TEACHER", "SCHOOL_ADMIN", "ADMIN"}
           THEN fail(BadRequest, "You do not have permission to create a class",
                     <<Validate>> \o lookSchool \o lookCreator)
           ELSE IF SuppliedId(dto, "classTeacherId") /\ FindTeacher(dto.classTeacherId) = NoRow
           THEN fail(NotFound, "Teacher not found",
                     <<Validate>> \o lookSchool \o lookCreator \o lookTeacher)
           ELSE IF upload /\ env = "uploadFails"
           THEN fail(BadRequest, "Failed to upload class image", lookups)
           ELSE /\ storage' = IF upload THEN storage \cup {imageUrl} ELSE storage
                /\ uploads' = IF upload THEN uploads + 1 ELSE uploads
                /\ IF ClassUsernameConflict(0, data.username)
                   THEN /\ UNCHANGED <<classes, nextClassId, codeSeq>>
                        /\ clock' = IF upload THEN clock + 1 ELSE clock
                        /\ PublishFor(Args(0, dto, valid, env),
                                      Thrown(op, BadRequest, "Class with this username already exists"),
                                   Append(lookups, Write("class")))
                   ELSE IF ClassCodeConflict(0, data.classCode)
                   THEN /\ UNCHANGED <<classes, nextClassId, codeSeq>>
                        /\ clock' = IF upload THEN clock + 1 ELSE clock
                        /\ PublishFor(Args(0, dto, valid, env), Thrown(op, BadRequest,
                                          "Generated class code is not unique, please try again"),
                                   Append(lookups, Write("class")))
                   ELSE IF env = "writeFails"
                   THEN /\ UNCHANGED <<classes, nextClassId, codeSeq>>
                        /\ clock' = IF upload THEN clock + 1 ELSE clock
                        /\ PublishFor(Args(0, dto, valid, env), Thrown(op, BadRequest,
                                          "Something went wrong while creating the class"),
                                   Append(lookups, Write("class")))
                   ELSE /\ classes' = classes @@ (nextClassId :> row)
                        /\ nextClassId' = nextClassId + 1
                        /\ codeSeq' = codeSeq + 1
                        /\ clock' = clock + 1
                        /\ PublishFor(Args(0, dto, valid, env),
                                      Returned(op, <<SafeCreatedClass(row)>>),
                                   Append(lookups, Write("class")))

-----------------------------------------------------------------------------
(* ClassService.findAll, findAllBySchoolIdNeededData, findOne *)

\* lines 119-131: the where clause
ClassWhere(row, schoolId, creatorId, classType) ==
    /\ (schoolId # 0 => row.schoolId = schoolId)
    /\ (creatorId # 0 => row.creatorId = creatorId)
    /\ (classType # "" => row.classType = classType)

\* lines 133-156: findMany without a select gives every column of the row
ClassFindAllRow(row) == row

\* lines 117-165
ClassFindAll(schoolId, creatorId, classType, env) ==
    /\ UNCHANGED <<joinRequests, schools, classes, modules, nextClassId, nextModuleId, codeSeq, storage,
                   uploads, clock, limit, calls, generated, issued, setup>>
    /\ LET found == OrderByCreatedAtDesc(
                        {classes[c] : c \in {d \in DOMAIN classes :
                              ClassWhere(classes[d], schoolId, creatorId, classType)}})
       IN  IF env = "readFails"
           THEN Publish(Thrown("Class.findAll", NotFound,
                               "Something went wrong while retrieving classes"),
                        <<Lookup("class", "where")>>)
           ELSE Publish(Returned("Class.findAll",
                                 [i \in 1..Len(found) |-> ClassFindAllRow(found[i])]),
                        <<Lookup("class", "where")>>)

\* lines 172-192: the columns selected
NeededData(row) == [k \in {"id", "name", "classImage", "classType"} |-> row[k]]

\* lines 167-203
ClassFindAllBySchoolIdNeededData(schoolId, env) ==
    /\ UNCHANGED <<joinRequests, schools, classes, modules, nextClassId, nextModuleId, codeSeq, storage,
                   uploads, clock, limit, calls, generated, issued, setup>>
    /\ LET found == OrderByCreatedAtDesc(
                        {classes[c] : c \in {d \in DOMAIN classes : classes[d].schoolId = schoolId}})
       IN  IF env = "readFails"
           THEN Publish(Thrown("Class.findAllBySchoolIdNeededData", NotFound,
                               "Something went wrong while retrieving classes by school ID"),
                        <<Lookup("class", "where")>>)
           ELSE Publish(Returned("Class.findAllBySchoolIdNeededData",
                                 [i \in 1..Len(found) |-> NeededData(found[i])]),
                        <<Lookup("class", "where")>>)

\* dbService.class.findUnique({ where }), where one of id, classCode, username
FindClass(by, value) ==
    LET hits == {c \in DOMAIN classes :
                    CASE by = "id" -> c = value
                      [] by = "classCode" -> classes[c].classCode = value
                      [] OTHER -> classes[c].username = value}
    IN  IF hits = {} THEN NoRow ELSE classes[CHOOSE c \in hits : TRUE]

\* lines 285-290: what findOne returns for the row it found
FoundClass(row) == IF row.classType = "PRIVATE_TUTORING" THEN WithoutClassCode(row) ELSE row

\* lines 205-302
ClassFindOne(id, username, code, env) ==
    /\ UNCHANGED <<joinRequests, schools, classes, modules, nextClassId, nextModuleId, codeSeq, storage,
                   uploads, clock, limit, calls, generated, issued, setup>>
    /\ IF id = 0 /\ ~Truthy(code) /\ ~Truthy(username)
       THEN Publish(Thrown("Class.findOne", BadRequest,
                           "You must provide id, code, or username to find a class"),
                    <<Validate>>)
       ELSE LET by == IF id # 0 THEN "id" ELSE IF Truthy(code) THEN "classCode" ELSE "username"
                classFound == IF id # 0 THEN FindClass("id", id)
                              ELSE IF Truthy(code) THEN FindClass("classCode", code)
                              ELSE FindClass("username", username)
                tr == <<Validate, Lookup("class", by)>>
            IN  IF env = "readFails"
                THEN Publish(Thrown("Class.findOne", NotFound,
                                    "Something went wrong while retrieving class"), tr)
                ELSE IF classFound = NoRow
                THEN Publish(Thrown("Class.findOne", NotFound, "Class not found with identifier"), tr)
                ELSE Publish(Returned("Class.findOne", <<FoundClass(classFound)>>), tr)

-----------------------------------------------------------------------------
(* ClassService.update and remove *)

\* lines 375-386: the exception update's catch block throws for a caught error
ClassUpdateErrorKind(code) == IF code = "P2025" THEN NotFound ELSE BadRequest

\* lines 353-361: the data of the update, the undefined fields left out; `image`
\* is updateData.image after the image block
ClassUpdateData(dto, image) ==
    (IF Has(dto, "schoolId") THEN [schoolId |-> dto.schoolId] ELSE NoFields)
    @@ (IF Has(dto, "creatorId") THEN [creatorId |-> dto.creatorId] ELSE NoFields)
    @@ (IF Has(dto, "code") THEN [classCode |-> dto.code] ELSE NoFields)
    @@ (IF Has(dto, "name") THEN [name |-> dto.name] ELSE NoFields)
    @@ (IF Has(dto, "username") THEN [username |-> dto.username] ELSE NoFields)
    @@ (IF Has(dto, "image") THEN [classImage |-> image] ELSE NoFields)
    @@ (IF Has(dto, "classType") /\ dto.classType # "null"
        THEN [classType |-> dto.classType] ELSE NoFields)

\* lines 304-387
ClassUpdate(id, valid, dto, env) ==
    /\ clock < limit
    /\ UNCHANGED <<joinRequests, schools, modules, nextClassId, nextModuleId, codeSeq, limit, calls,
                   generated, issued, setup>>
    /\ LET op == "Class.update"
           existingClass == FindClass("id", id)
           tr1 == <<Validate, Lookup("class", "id")>>
           upload == SuppliedStr(dto, "image") /\ startsWith(dto.image, "data:image")
           clear == Has(dto, "image") /\ (dto.image = NullStr \/ dto.image = <<>>) /\ ~upload
           deleteOld == (upload \/ clear) /\ existingClass.classImage # NullStr
                        /\ Truthy(existingClass.classImage)
           storageAfterDelete == IF deleteOld THEN storage \ {existingClass.classImage}
                                 ELSE storage
           image == IF upload THEN SecureUrl(uploads + 1)
                    ELSE IF clear THEN NullStr
                    ELSE IF Has(dto, "image") THEN dto.image ELSE NullStr
           lookTeacher == IF SuppliedId(dto, "classTeacherId")
                          THEN <<Lookup("teacher", "id")>> ELSE <<>>
           data == ClassUpdateData(dto, image)
           tr2 == tr1 \o lookTeacher
           tr3 == Append(tr2, Write("class"))
           newUsername == IF Has(data, "username") THEN data.username
                          ELSE existingClass.username
           newCode == IF Has(data, "classCode") THEN data.classCode ELSE existingClass.classCode
       IN  IF ~valid
           THEN /\ UNCHANGED <<classes, storage, uploads, clock>>
                /\ PublishFor(Args(id, dto, valid, env),
                              Thrown(op, BadRequest, "Invalid class update data provided"),
                           <<Validate>>)
           ELSE IF existingClass = NoRow
           THEN /\ UNCHANGED <<classes, storage, uploads, clock>>
                /\ PublishFor(Args(id, dto, valid, env),
                              Thrown(op, ClassUpdateErrorKind("NotFoundException"),
                                  "Something went wrong while updating class"), tr1)
           ELSE IF upload /\ env = "uploadFails"
           THEN /\ UNCHANGED <<classes, uploads>>
                /\ storage' = storageAfterDelete
                /\ clock' = IF deleteOld THEN clock + 1 ELSE clock
                /\ PublishFor(Args(id, dto, valid, env),
                              Thrown(op, ClassUpdateErrorKind("BadRequestException"),
                                  "Something went wrong while updating class"), tr1)
           ELSE /\ storage' = IF upload THEN storageAfterDelete \cup {image}
                              ELSE storageAfterDelete
                /\ uploads' = IF upload THEN uploads + 1 ELSE uploads
                /\ IF SuppliedId(dto, "classTeacherId") /\ FindTeacher(dto.classTeacherId) = NoRow
                   THEN /\ UNCHANGED classes
                        /\ clock' = IF upload \/ deleteOld THEN clock + 1 ELSE clock
                        /\ PublishFor(Args(id, dto, valid, env),
                                      Thrown(op, ClassUpdateErrorKind("NotFoundException"),
                                          "Something went wrong while updating class"), tr2)
                   ELSE IF ClassUsernameConflict(id, newUsername)
                   THEN /\ UNCHANGED classes
                        /\ clock' = IF upload \/ deleteOld THEN clock + 1 ELSE clock
                        /\ PublishFor(Args(id, dto, valid, env),
                                      Thrown(op, BadRequest, "Class with this username already exists"),
                                   tr3)
                   ELSE IF ClassCodeConflict(id, newCode) \/ env = "writeFails"
                   THEN /\ UNCHANGED classes
                        /\ clock' = IF upload \/ deleteOld THEN clock + 1 ELSE clock
                        /\ PublishFor(Args(id, dto, valid, env),
                                      Thrown(op, ClassUpdateErrorKind("other"),
                                          "Something went wrong while updating class"), tr3)
                   ELSE /\ classes' = [classes EXCEPT ![id] = Updated(@, data)]
                        /\ clock' = clock + 1
                        /\ PublishFor(Args(id, dto, valid, env),
                                      Returned(op, <<classes'[id]>>), tr3)

\* lines 407-413: the exception remove's catch block throws for a caught error
ClassRemoveErrorKind(code) == IF code = "P2025" THEN NotFound ELSE BadRequest

ClassRemoveWritesWithCounter == <<Write("class"), Write("school")>>

\* lines 401-403: the one write of remove, the delete of the row
ClassRemoveWrites == <<Write("class")>>

\* lines 389-414
ClassRemove(id, env) ==
    /\ clock < limit
    /\ UNCHANGED <<joinRequests, schools, modules, nextClassId, nextModuleId, codeSeq, uploads, limit, calls,
                   generated, issued, setup>>
    /\ LET op == "Class.remove"
           classToDelete == FindClass("id", id)
           tr1 == <<Lookup("class", "id")>>
           tr2 == tr1 \o ClassRemoveWrites
       IN  IF classToDelete = NoRow
           THEN /\ UNCHANGED <<classes, storage, clock>>
                /\ PublishFor(Args(id, NoFields, TRUE, env),
                              Thrown(op, ClassRemoveErrorKind("NotFoundException"),
                                  "Something went wrong while removing class"), tr1)
           ELSE /\ storage' = IF classToDelete.classImage # NullStr
                                 /\ Truthy(classToDelete.classImage)
                              THEN storage \ {classToDelete.classImage} ELSE storage
                /\ IF env = "writeFails"
                   THEN /\ UNCHANGED classes
                        /\ clock' = IF storage' # storage THEN clock + 1 ELSE clock
                        /\ PublishFor(Args(id, NoFields, TRUE, env),
                                      Thrown(op, ClassRemoveErrorKind("other"),
                                          "Something went wrong while removing class"), tr2)
                   ELSE /\ classes' = [c \in (DOMAIN classes) \ {id} |-> classes[c]]
                        /\ clock' = clock + 1
                        /\ PublishFor(Args(id, NoFields, TRUE, env), Returned(op, <<>>), tr2)

-----------------------------------------------------------------------------
(* SchoolService.sendAdministrationJoinRequests *)

\* the optional fields of a request, left out when the contact has none
Optional(k, source, field) == IF Has(source, field) THEN (k :> source[field]) ELSE NoFields

LeaderRequestWithoutEmailCheck(schoolId, dto, nameField, emailField, phoneField) ==
    IF Has(dto, nameField) \/ SuppliedStr(dto, emailField)
    THEN <<[schoolId |-> schoolId, requestedRole |-> "TEACHER",
            requesterEmail |-> IF Has(dto, emailField) THEN dto[emailField] ELSE <<>>,
            userId |-> 0]
           @@ Optional("requesterName", dto, nameField)
           @@ Optional("requesterPhone", dto, phoneField)>>
    ELSE <<>>

\* lines 536-556: the request of the headmaster or of the director of studies
LeaderRequest(schoolId, dto, nameField, emailField, phoneField) ==
    IF SuppliedStr(dto, emailField)
    THEN <<[schoolId |-> schoolId, requestedRole |-> "TEACHER",
            requesterEmail |-> dto[emailField], userId |-> 0]
           @@ Optional("requesterName", dto, nameField)
           @@ Optional("requesterPhone", dto, phoneField)>>
    ELSE <<>>

RECURSIVE AdditionalRequests(_, _)
\* lines 558-571: one request per additional contact that has an email
AdditionalRequests(schoolId, admins) ==
    IF admins = <<>> THEN <<>>
    ELSE LET admin == Head(admins)
         IN  (IF SuppliedStr(admin, "email")
              THEN <<[schoolId |-> schoolId, requestedRole |-> admin.role,
                      requesterEmail |-> admin.email, userId |-> 0]
                     @@ Optional("requesterName", admin, "name")
                     @@ Optional("requesterPhone", admin, "phone")>>
              ELSE <<>>)
             \o AdditionalRequests(schoolId, Tail(admins))

\* lines 534-571: requestsToCreate
RequestsToCreate(schoolId, dto) ==
    LeaderRequest(schoolId, dto, "headmasterName", "headmasterEmail", "headmasterPhone")
    \o LeaderRequest(schoolId, dto, "DirectorOfStudies", "principalEmail", "principalPhone")
    \o AdditionalRequests(schoolId, ListOf(dto, "additionalAdministration"))

SendErrorKindAlwaysInternal(thrown) == InternalError

\* lines 592-599: the exception the outer catch block throws for a caught one
SendErrorKind(thrown) ==
    IF thrown \in {NotFound, BadRequest, InternalError} THEN thrown ELSE InternalError

\* lines 518-600
SendAdministrationJoinRequests(valid, dto, env) ==
    /\ clock < limit
    /\ UNCHANGED <<schools, classes, modules, nextClassId, nextModuleId, codeSeq, storage,
                   uploads, limit, calls, generated, issued, setup>>
    /\ LET op == "School.sendAdministrationJoinRequests"
           school == FindSchool(dto.schoolId)
           requestsToCreate == RequestsToCreate(dto.schoolId, dto)
           tr1 == <<Validate, Lookup("school", "id")>>
           tr2 == Append(tr1, Write("joinRequest"))
       IN  IF ~valid
           THEN /\ UNCHANGED <<joinRequests, clock>>
                /\ PublishFor(Args(0, dto, valid, env),
                              Thrown(op, BadRequest, "Invalid school administration data provided"),
                           <<Validate>>)
           ELSE IF school = NoRow
           THEN /\ UNCHANGED <<joinRequests, clock>>
                /\ PublishFor(Args(0, dto, valid, env),
                              Thrown(op, SendErrorKind(NotFound), "School not found"), tr1)
           ELSE IF Len(requestsToCreate) = 0
           THEN /\ UNCHANGED <<joinRequests, clock>>
                /\ PublishFor(Args(0, dto, valid, env), Thrown(op, SendErrorKind(BadRequest),
                                  "No valid administration contact emails provided to send join requests."),
                           tr1)
           ELSE IF env = "writeFails"
           THEN /\ UNCHANGED <<joinRequests, clock>>
                /\ PublishFor(Args(0, dto, valid, env), Thrown(op, SendErrorKind(InternalError),
                                  "Something went wrong during the bulk creation of administration join requests."),
                           tr2)
           ELSE /\ joinRequests' = joinRequests \o requestsToCreate
                /\ clock' = clock + 1
                /\ PublishFor(Args(0, dto, valid, env),
                              Returned(op, <<[attempted |-> Len(requestsToCreate),
                                          created |-> Len(requestsToCreate)]>>), tr2)

-----------------------------------------------------------------------------
(* The initial states *)

\* the database after construction, `calls_` writing calls to explore
Empty(calls_) ==
    /\ schools = <<>>
    /\ classes = <<>>
    /\ modules = <<>>
    /\ joinRequests = <<>>
    /\ nextClassId = 1
    /\ nextModuleId = 1
    /\ codeSeq = 0
    /\ storage = {}
    /\ uploads = 0
    /\ clock = 0
    /\ limit = calls_
    /\ calls = [p \in Procs |-> Idle]
    /\ ret = NoCall
    /\ trace = <<>>
    /\ generated = <<>>
    /\ issued = <<>>
    /\ setup = NoSetup

-----------------------------------------------------------------------------
(* The inputs *)

SchoolName == <<"Green", " ", "Hill">>

Usernames == {<<"greenhill">>, <<"hill">>}

\* a logo to upload, a logo held elsewhere, no logo, a string that is no URL
Images == {<<"data:image", "/png;base64,AAAA">>, <<"https://", "img.example/a.png">>,
           <<>>, <<"logo.png">>}

\* every draw of generateCode the same
SameDraws == [f \in InvitationFields |-> 1]

\* the draws of generateCode all different
DistinctDraws == [f \in InvitationFields |->
                    CASE f = "studentInvitationCode" -> 1 [] f = "teacherInvitationCode" -> 2
                      [] f = "staffInvitationCode" -> 3 [] OTHER -> 4]

\* the optional field k, absent or one of `values`
Opt(k, values) == {NoFields} \cup {(k :> v) : v \in values}

\* CreateSchoolDto
CreateSchoolDtos(creators, usernames, logos, types) ==
    {[name |-> SchoolName, creatorId |-> c, username |-> u, schoolType |-> t] @@ l :
        c \in creators, u \in usernames, t \in types, l \in Opt("logo", logos)}

\* UpdateSchoolDto
UpdateSchoolDtos(usernames, names, logos, types) ==
    {u @@ n @@ l @@ t : u \in Opt("username", usernames), n \in Opt("name", names),
                        l \in Opt("logo", logos), t \in Opt("schoolType", types)}

-----------------------------------------------------------------------------
(* Two callers of SchoolService.create and update, their steps interleaved *)

InitSchool == Empty(MaxSchoolWrites)

NextSchool ==
    \/ \E p \in Procs, valid \in BOOLEAN,
          dto \in CreateSchoolDtos({1, 4}, Usernames, {}, {"PUBLIC"}), nonce \in {1, 2} :
            SchoolCreateBegin(p, valid, dto, nonce)
    \/ \E p \in Procs, env \in {"ok", "writeFails"} : SchoolCreateWrite(p, env, SameDraws)
    \/ \E p \in Procs, valid \in BOOLEAN, schoolId \in 1..2,
          dto \in UpdateSchoolDtos(Usernames, {}, {}, {}) :
            SchoolUpdateBegin(p, valid, schoolId, dto)
    \/ \E p \in Procs : SchoolUpdateUsername(p)
    \/ \E p \in Procs, env \in {"ok", "writeFails"} : SchoolUpdateWrite(p, env)

SpecSchool == InitSchool /\ [][NextSchool]_vars

-----------------------------------------------------------------------------
(* One school, its academic structure set up, classes created and removed *)

RECURSIVE ListsUpTo(_, _)
\* the sequences over `values` of length 0 to n
ListsUpTo(values, n) ==
    IF n = 0 THEN {<<>>}
    ELSE ListsUpTo(values, n - 1)
         \cup {Append(l, v) : l \in {x \in ListsUpTo(values, n - 1) : Len(x) = n - 1}, v \in values}

\* SchoolAcademicDto for the school `schoolId` with one track filled in
TrackDtos(schoolId, mainField, mains, optionField, options) ==
    {[schoolId |-> schoolId] @@ m @@ o :
        m \in Opt(mainField, mains), o \in Opt(optionField, {<<o1>> : o1 \in options})}

SoftwareDevelopment == <<"Software", " ", "Development">>

AcademicDtos(schoolId) ==
    TrackDtos(schoolId, "primarySubjectsOffered", ListsUpTo({<<"Mathematics">>}, MaxSubjects),
              "primaryPassMark", {})
    \cup TrackDtos(schoolId, "oLevelCoreSubjects", ListsUpTo({<<"English">>}, MaxSubjects),
                   "oLevelOptionSubjects", {<<"Art">>})
    \cup TrackDtos(schoolId, "aLevelSubjectCombination", ListsUpTo({<<"PCM">>}, MaxSubjects),
                   "aLevelOptionSubjects", {<<"Music">>})
    \cup TrackDtos(schoolId, "tvetSpecialization",
                   ListsUpTo({SoftwareDevelopment}, MaxSubjects)
                   \cup {<<SoftwareDevelopment, StripSpaces(SoftwareDevelopment)>>},
                   "tvetOptionSubjects", {<<"Welding">>})
    \cup {[schoolId |-> schoolId, primarySubjectsOffered |-> <<<<"Mathematics">>>>,
           oLevelCoreSubjects |-> <<<<"English">>>>,
           aLevelSubjectCombination |-> <<<<"PCM">>, <<"MEG">>>>,
           tvetSpecialization |-> <<SoftwareDevelopment>>,
           tvetOptionSubjects |-> <<<<"Welding">>>>]}

SchoolOneAcademicDtos == AcademicDtos(1)

\* the one school these behaviours create
TheSchoolDto == [name |-> SchoolName, creatorId |-> 1, username |-> <<"greenhill">>,
                 schoolType |-> "PUBLIC"]

\* CreateClassInput for a class of the school: a name the generator also gives, or another
AcademicClassDtos ==
    {[name |-> n, schoolId |-> 1] : n \in {LevelClassName("S1", SchoolName), <<"Chess">>}}

InitAcademic == Empty(MaxAcademicWrites)

NextAcademic ==
    \/ SchoolCreateBegin("p1", TRUE, TheSchoolDto, 1)
    \/ SchoolCreateWrite("p1", "ok", DistinctDraws)
    \/ \E dto \in SchoolOneAcademicDtos, order \in {"asc", "desc"} :
            SetupAcademicStructure(TRUE, dto, "ok", order)
    \/ \E valid \in BOOLEAN, env \in {"ok", "classesP2002"} :
            SetupAcademicStructure(valid, [schoolId |-> IF valid /\ env = "ok" THEN 2 ELSE 1,
                                           oLevelCoreSubjects |-> <<<<"English">>>>], env, "asc")
    \/ \E dto \in AcademicClassDtos, code \in ClassCodeDraws : ClassCreate(TRUE, dto, "ok", code)
    \/ \E id \in 1..nextClassId : ClassRemove(id, "ok")

SpecAcademic == InitAcademic /\ [][NextAcademic]_vars

-----------------------------------------------------------------------------
(* The academic structure *)

\* a setupAcademicStructure call has reached its generator
SetupRan == setup.schoolId # 0

\* C7: for an existing school and valid input setupAcademicStructure submits 6
\* classes if primarySubjectsOffered is non-empty, 3 if oLevelCoreSubjects is
\* non-empty, 3 for each entry of aLevelSubjectCombination and 3 for each entry of
\* tvetSpecialization, no class for an absent or empty list, and every class has
\* the school's id and classType MAIN_SCHOOL_CLASS.
ClassesSubmittedPerTrack ==
    SetupRan =>
        /\ Len(setup.classesToCreate) =
              (IF NonEmpty(setup.dto, "primarySubjectsOffered") THEN 6 ELSE 0)
              + (IF NonEmpty(setup.dto, "oLevelCoreSubjects") THEN 3 ELSE 0)
              + 3 * Len(ListOf(setup.dto, "aLevelSubjectCombination"))
              + 3 * Len(ListOf(setup.dto, "tvetSpecialization"))
        /\ \A i \in 1..Len(setup.classesToCreate) :
              /\ setup.classesToCreate[i].schoolId = setup.dto.schoolId
              /\ setup.classesToCreate[i].schoolId \in DOMAIN schools
              /\ setup.classesToCreate[i].classType = "MAIN_SCHOOL_CLASS"

\* a call with the four tracks filled in, two A-level combinations among them
AllTracksSubmitted ==
    /\ SetupRan
    /\ NonEmpty(setup.dto, "primarySubjectsOffered")
    /\ NonEmpty(setup.dto, "oLevelCoreSubjects")
    /\ Len(ListOf(setup.dto, "aLevelSubjectCombination")) = 2
    /\ NonEmpty(setup.dto, "tvetSpecialization")
    /\ Len(setup.classesToCreate) = 18

\* title and type of the modules of one entry of modulesByClass
TitlesAndTypes(mods) ==
    [j \in 1..Len(mods) |-> [title |-> mods[j].title, moduleType |-> mods[j].moduleType]]

Core(title) == [title |-> title, moduleType |-> "CORE_CONTENT"]

Supplementary(subjects) ==
    [j \in 1..Len(subjects) |-> [title |-> subjects[j], moduleType |-> "SUPPLEMENTARY"]]

\* the modules the claim gives a class of `track`, `key` its combination or specialization
ModulesOfTrack(dto, track, key) ==
    CASE track = "primary" ->
            [j \in 1..Len(dto.primarySubjectsOffered) |-> Core(dto.primarySubjectsOffered[j])]
      [] track = "oLevel" ->
            [j \in 1..Len(dto.oLevelCoreSubjects) |-> Core(dto.oLevelCoreSubjects[j])]
            \o Supplementary(ListOf(dto, "oLevelOptionSubjects"))
      [] track = "aLevel" ->
            <<Core(key)>> \o Supplementary(ListOf(dto, "aLevelOptionSubjects"))
      [] OTHER ->
            <<Core(key)>> \o Supplementary(ListOf(dto, "tvetOptionSubjects"))

MainListOf(track) ==
    CASE track = "primary" -> "primarySubjectsOffered"
      [] track = "oLevel" -> "oLevelCoreSubjects"
      [] track = "aLevel" -> "aLevelSubjectCombination"
      [] OTHER -> "tvetSpecialization"

\* C8: the modules generated for a class depend only on its track: a primary class
\* gets one CORE_CONTENT module per primary subject, an O-level class one
\* CORE_CONTENT module per core subject and one SUPPLEMENTARY module per option
\* subject, an A-level or TVET class one CORE_CONTENT module titled with its
\* combination or specialization and one SUPPLEMENTARY module per option subject of
\* its track; a track whose main list is empty generates no module.
ModulesGeneratedPerTrack ==
    SetupRan =>
        /\ Len(setup.modulesByClass) = Len(setup.generated)
        /\ \A i \in 1..Len(setup.generated) :
              LET entry == setup.generated[i]
              IN  /\ NonEmpty(setup.dto, MainListOf(entry.track))
                  /\ setup.modulesByClass[i].className = setup.classesToCreate[i].name
                  /\ TitlesAndTypes(setup.modulesByClass[i].modules)
                        = ModulesOfTrack(setup.dto, entry.track, entry.key)
        /\ \A t \in {"primary", "oLevel", "aLevel", "tvet"} :
              ~NonEmpty(setup.dto, MainListOf(t))
                  => \A i \in 1..Len(setup.generated) : setup.generated[i].track # t

\* an A-level class generated with its combination and an option subject
OptionModulesGenerated ==
    /\ SetupRan
    /\ \E i \in 1..Len(setup.generated) :
          /\ setup.generated[i].track = "aLevel"
          /\ TitlesAndTypes(setup.modulesByClass[i].modules)
                = <<Core(<<"PCM">>), [title |-> <<"Music">>, moduleType |-> "SUPPLEMENTARY"]>>

\* the rows of CourseContentModule that belong to class `c`
ModulesOfClass(c) == {m \in DOMAIN modules : modules[m].classId = c}

\* C9: every module a setupAcademicStructure call writes belongs to the class the
\* same call created for the entry the module was generated for, also when classes
\* of the same name exist already or two generated classes share a name, and every
\* class the call creates receives its full generated module set.
ModulesBelongToTheirClass ==
    (ret.op = "School.setupAcademicStructure" /\ ret.status = "ok") =>
        \A i \in 1..Len(setup.created) :
            /\ \A j \in 1..Len(setup.written[i]) :
                  modules[setup.written[i][j]].classId = setup.created[i]
            /\ Cardinality(ModulesOfClass(setup.created[i]))
                  = Len(setup.modulesByClass[i].modules)

\* C10: the school's totalClasses is the number of classes whose schoolId is the
\* school, and its totalModules the number of modules of those classes.
CountersAccurate ==
    \A s \in DOMAIN schools :
        LET mine == {c \in DOMAIN classes : classes[c].schoolId = s}
        IN  /\ schools[s].totalClasses = Cardinality(mine)
            /\ schools[s].totalModules
                  = Cardinality({m \in DOMAIN modules : modules[m].classId \in mine})

-----------------------------------------------------------------------------
(* School usernames *)

SchoolWrites == {"School.create", "School.update"}

\* C2: under every interleaving of create and update calls no two schools share a
\* username, and a call that ends either returns the row it stored, under the
\* username that row holds, or fails with BadRequestException and leaves the
\* stored schools unchanged.
SchoolUsernamesUnique ==
    /\ \A s, t \in DOMAIN schools : s # t => schools[s].username # schools[t].username
    /\ ret.op \in SchoolWrites =>
          IF ret.status = "ok"
          THEN /\ ret.rows[1].id \in DOMAIN schools
               /\ schools[ret.rows[1].id] = ret.rows[1]
          ELSE ret.status = BadRequest /\ ~ret.wrote

\* a write the unique index refused: the username was free when the call looked it
\* up and another caller's school held it when the call wrote
LostTheUsernameRace ==
    /\ ret.op \in SchoolWrites
    /\ ret.status = BadRequest
    /\ ret.message = "School with this username already exists."
    /\ Cardinality(DOMAIN schools) >= 1

-----------------------------------------------------------------------------
(* The class operations, over one school and the classes of teachers *)

DataImage == <<"data:image", "/png;base64,AAAA">>

\* CreateClassInput: a class of a teacher or of a student, private or not, with an
\* image or none; a class of the school with its teacher; a class with no connection
ClassCreateDtos ==
    {[name |-> <<"Chess">>, creatorId |-> c] @@ t @@ i :
        c \in {3, 4}, t \in Opt("classType", {"PRIVATE_TUTORING"}), i \in Opt("image", {DataImage})}
    \cup {[name |-> <<"Chess">>, schoolId |-> 1, creatorId |-> 3, classTeacherId |-> k,
           username |-> <<"chess">>] : k \in {1, 2}}
    \cup {[name |-> <<"Chess">>]}

\* UpdateClassInput
ClassUpdateDtos ==
    {NoFields, [name |-> <<"Go">>], [classType |-> "PRIVATE_TUTORING"],
     [classType |-> "MAIN_SCHOOL_CLASS"], [image |-> NullStr], [image |-> DataImage],
     [username |-> <<"chess">>], [classTeacherId |-> 2], [classTeacherId |-> 1]}

InitClass == Empty(MaxClassWrites)

NextClass ==
    \/ SchoolCreateBegin("p1", TRUE, TheSchoolDto, 1)
    \/ SchoolCreateWrite("p1", "ok", DistinctDraws)
    \/ \E valid \in BOOLEAN, dto \in ClassCreateDtos, env \in {"ok", "uploadFails", "writeFails"},
          code \in ClassCodeDraws : ClassCreate(valid, dto, env, code)
    \/ \E schoolId \in 0..1, creatorId \in {0, 3}, classType \in {"", "PRIVATE_TUTORING"},
          env \in {"ok", "readFails"} : ClassFindAll(schoolId, creatorId, classType, env)
    \/ \E env \in {"ok", "readFails"} : ClassFindAllBySchoolIdNeededData(1, env)
    \/ \E id \in 0..2, username \in {<<>>, <<"chess">>}, code \in {<<>>, generateCode(1)},
          env \in {"ok", "readFails"} : ClassFindOne(id, username, code, env)
    \/ \E id \in 1..2, valid \in BOOLEAN, dto \in ClassUpdateDtos,
          env \in {"ok", "uploadFails", "writeFails"} : ClassUpdate(id, valid, dto, env)
    \/ \E id \in 1..2, env \in {"ok", "writeFails"} : ClassRemove(id, env)

SpecClass == InitClass /\ [][NextClass]_vars

\* the ClassService operations that return classes
ClassReturning == {"Class.create", "Class.findAll", "Class.findAllBySchoolIdNeededData",
                   "Class.findOne", "Class.update"}

\* C1: no value a ClassService operation returns for a class of type
\* PRIVATE_TUTORING contains the class's classCode, and findOne returns the
\* classCode of a class of another type.
ClassCodeScopedByType ==
    (ret.op \in ClassReturning /\ ret.status = "ok") =>
        \A i \in 1..Len(ret.rows) :
            /\ ret.rows[i].classType = "PRIVATE_TUTORING" => "classCode" \notin DOMAIN ret.rows[i]
            /\ (ret.op = "Class.findOne" /\ ret.rows[i].classType # "PRIVATE_TUTORING")
                  => "classCode" \in DOMAIN ret.rows[i]

-----------------------------------------------------------------------------
(* The invitation codes of a school through the calls that follow its creation *)

BlueLake == <<"Blue", " ", "Lake">>

\* UpdateSchoolDto: a new name, a new username, a new type with a logo to upload
InvitationUpdateDtos ==
    {[name |-> BlueLake], [username |-> <<"hill">>],
     [schoolType |-> "PRIVATE", logo |-> DataImage]}

\* SchoolAdministrationDto: no contact, a headmaster, two additional contacts of
\* which one has no email
AdministrationDtos ==
    {[schoolId |-> s] @@ a :
        s \in 1..2,
        a \in {NoFields,
               [headmasterName |-> <<"Ada">>, headmasterEmail |-> <<"ada@example.org">>],
               [additionalAdministration |->
                    <<[role |-> "SCHOOL_STAFF", name |-> <<"Bo">>, email |-> <<"bo@example.org">>],
                      [role |-> "SCHOOL_STAFF", name |-> <<"Cy">>, email |-> <<>>]>>]}}

HeadmasterOfSchoolOne ==
    [schoolId |-> 1, headmasterName |-> <<"Ada">>, headmasterEmail |-> <<"ada@example.org">>]

InitInvitation == Empty(MaxInvitationWrites)

NextInvitation ==
    \/ SchoolCreateBegin("p1", TRUE, TheSchoolDto, 1)
    \/ \E draws \in {SameDraws, DistinctDraws} : SchoolCreateWrite("p1", "ok", draws)
    \/ \E schoolId \in 1..2, dto \in InvitationUpdateDtos :
            SchoolUpdateBegin("p1", TRUE, schoolId, dto)
    \/ SchoolUpdateUsername("p1")
    \/ SchoolUpdateWrite("p1", "ok")
    \/ \E env \in {"ok", "modulesFail"} :
            SetupAcademicStructure(TRUE, [schoolId |-> 1, oLevelCoreSubjects |-> <<<<"English">>>>],
                                   env, "asc")
    \/ \E valid \in BOOLEAN, env \in {"ok", "writeFails"} :
            SendAdministrationJoinRequests(valid, HeadmasterOfSchoolOne, env)

SpecInvitation == InitInvitation /\ [][NextInvitation]_vars

\* C5: every school stores four invitation codes (student, teacher, staff, parent),
\* each the hash of the code generated for it and never the plain code, and the
\* four codes stay what create stored through every later update,
\* setupAcademicStructure and sendAdministrationJoinRequests call.
InvitationCodesKept ==
    \A s \in DOMAIN schools :
        \A f \in {"studentInvitationCode", "teacherInvitationCode", "staffInvitationCode",
                  "parentInvitationCode"} :
            /\ f \in DOMAIN schools[s]
            /\ schools[s][f] = hashCode(generated[s][f])
            /\ schools[s][f] # generated[s][f]
            /\ schools[s][f] = issued[s][f]

\* a school that has since been updated and set up, and has join requests
CodesOutlivedLaterCalls ==
    \E s \in DOMAIN schools :
        /\ schools[s].updatedAt > schools[s].createdAt
        /\ schools[s].academicProfile # NoRow
        /\ \E i \in 1..Len(joinRequests) : joinRequests[i].schoolId = s

-----------------------------------------------------------------------------
(* The school directory: schools created, updated and listed *)

\* CreateSchoolDto: two creators, two school types, public schools under one
\* username and private schools under another
DirectoryCreateDtos ==
    {[name |-> SchoolName, creatorId |-> c, schoolType |-> t,
      username |-> IF t = "PUBLIC" THEN <<"greenhill">> ELSE <<"hill">>] :
        c \in {1, 2}, t \in {"PUBLIC", "PRIVATE"}}

InitDirectory == Empty(MaxDirectoryWrites)

NextDirectory ==
    \/ \E dto \in DirectoryCreateDtos : SchoolCreateBegin("p1", TRUE, dto, 1)
    \/ SchoolCreateWrite("p1", "ok", DistinctDraws)
    \/ \E schoolId \in 1..2 :
            SchoolUpdateBegin("p1", TRUE, schoolId, [schoolType |-> "PRIVATE"])
    \/ SchoolUpdateWrite("p1", "ok")
    \/ \E schoolType \in {"", "PUBLIC", "PRIVATE"}, creatorId \in 0..2, env \in {"ok", "readFails"} :
            SchoolFindAll(schoolType, creatorId, env)
    \/ \E id \in 0..2, username \in {<<>>, <<"hill">>}, env \in {"ok", "readFails"} :
            SchoolFindOne(id, username, env)

SpecDirectory == InitDirectory /\ [][NextDirectory]_vars

\* C6: for every filter combination findAll returns no object with an invitation
\* code field, and returns exactly the schools that match all supplied filters.
FindAllSafeAndExact ==
    (ret.op = "School.findAll" /\ ret.status = "ok") =>
        LET matching == {s \in DOMAIN schools :
                            /\ ret.schoolType = "" \/ schools[s].schoolType = ret.schoolType
                            /\ ret.creatorId = 0 \/ schools[s].creatorId = ret.creatorId}
            keys == {"studentInvitationCode", "teacherInvitationCode", "staffInvitationCode",
                     "parentInvitationCode"}
        IN  /\ \A i \in 1..Len(ret.rows) : DOMAIN ret.rows[i] \cap keys = {}
            /\ {ret.rows[i].id : i \in 1..Len(ret.rows)} = matching
            /\ Len(ret.rows) = Cardinality(matching)
            /\ \A i \in 1..Len(ret.rows) : \A k \in DOMAIN ret.rows[i] :
                  ret.rows[i][k] = schools[ret.rows[i].id][k]

\* both filters supplied, some schools returned and some left out
FilteredSomeOut ==
    /\ ret.op = "School.findAll"
    /\ ret.status = "ok"
    /\ ret.schoolType # ""
    /\ ret.creatorId # 0
    /\ Len(ret.rows) >= 1
    /\ Len(ret.rows) < Cardinality(DOMAIN schools)

-----------------------------------------------------------------------------
(* Every operation of the two services *)

AllCreateDtos == CreateSchoolDtos({1}, {<<"greenhill">>}, {}, {"PUBLIC"})

AllUpdateDtos == UpdateSchoolDtos({<<"hill">>}, {}, {}, {})

AllClassDtos ==
    {[name |-> <<"Chess">>, schoolId |-> 1, creatorId |-> 3, classTeacherId |-> 1],
     [name |-> <<"Chess">>, creatorId |-> 3, username |-> <<"chess">>]}

Init == Empty(MaxAllWrites)

Next ==
    \/ \E valid \in BOOLEAN, dto \in AllCreateDtos : SchoolCreateBegin("p1", valid, dto, 1)
    \/ \E env \in {"ok", "writeFails"} : SchoolCreateWrite("p1", env, DistinctDraws)
    \/ \E valid \in BOOLEAN, schoolId \in 1..2, dto \in AllUpdateDtos :
            SchoolUpdateBegin("p1", valid, schoolId, dto)
    \/ SchoolUpdateUsername("p1")
    \/ \E env \in {"ok", "writeFails"} : SchoolUpdateWrite("p1", env)
    \/ \E env \in {"ok", "readFails"} : SchoolFindAll("", 0, env)
    \/ \E id \in 0..1, username \in {<<>>, <<"hill">>} : SchoolFindOne(id, username, "ok")
    \/ \E valid \in BOOLEAN, env \in SetupEnvs, schoolId \in 1..2 :
            SetupAcademicStructure(valid, [schoolId |-> schoolId,
                                           oLevelCoreSubjects |-> <<<<"English">>>>], env, "asc")
    \/ \E schoolId \in 1..2 :
            SetupAcademicStructure(TRUE, [schoolId |-> schoolId, primaryPassMark |-> 50], "ok", "asc")
    \/ \E valid \in BOOLEAN, dto \in AdministrationDtos, env \in {"ok", "writeFails"} :
            SendAdministrationJoinRequests(valid, dto, env)
    \/ \E valid \in BOOLEAN, dto \in AllClassDtos, env \in {"ok", "writeFails"},
          code \in ClassCodeDraws : ClassCreate(valid, dto, env, code)
    \/ \E env \in {"ok", "readFails"} : ClassFindAll(0, 0, "", env)
    \/ ClassFindAllBySchoolIdNeededData(1, "ok")
    \/ \E id \in 0..1, username \in {<<>>, <<"chess">>}, code \in {<<>>, generateCode(1)} :
            ClassFindOne(id, username, code, "ok")
    \/ \E id \in 1..2, valid \in BOOLEAN, dto \in {[name |-> <<"Go">>], [username |-> <<"chess">>]},
          env \in {"ok", "writeFails"} : ClassUpdate(id, valid, dto, env)
    \/ \E id \in 1..2, env \in {"ok", "writeFails"} : ClassRemove(id, env)

Spec == Init /\ [][Next]_vars

\* the operations that write a table
Writing == {"School.create", "School.update", "School.setupAcademicStructure",
            "School.sendAdministrationJoinRequests", "Class.create", "Class.update",
            "Class.remove"}

\* a lookup of an existing row by a unique column: a username or a class code
IsUniquenessLookup(step) == step.op = "lookup" /\ step.by \in {"username", "classCode"}

IsWrite(step) == step.op = "write"

\* the call looked a row up by username or code and wrote, or gave up, afterwards
LookedUpBeforeWriting(tr) ==
    \E i \in 1..Len(tr) : IsUniquenessLookup(tr[i]) /\ \A j \in 1..i : ~IsWrite(tr[j])

ConflictMessages == {"School with this username already exists.",
                     "Class with this username already exists",
                     "Generated class code is not unique, please try again"}

IsStraight(tr) ==
    \E v \in 0..1, l \in 0..3, w \in 0..1 :
        /\ Len(tr) = v + l + w
        /\ \A i \in 1..Len(tr) :
              IF i <= v THEN tr[i].op = "validate"
              ELSE IF i <= v + l THEN tr[i].op = "lookup"
              ELSE tr[i].op = "write"

\* C4 as the specification states it: every call of every method is a straight
\* sequence of validation, at most 3 lookups and at most one write.
EveryCallStraight ==
    ret.op # "none" => IsStraight(trace)

\* the database operations of a setupAcademicStructure call that ran to its end
SetupShapes ==
    {<<Validate, Lookup("school", "id")>> \o c \o <<Lookup("class", "where")>> \o m
     \o <<Write("school")>> : c \in {<<>>, <<Write("class")>>}, m \in {<<>>, <<Write("module")>>}}

\* C4: every call of every method but setupAcademicStructure is a straight sequence
\* of validation, at most 3 lookups and at most one write; a setupAcademicStructure
\* call writes up to three times (the classes, the modules, the school) and looks
\* the classes up after its first write.
StraightButSetup ==
    /\ (ret.op # "none" /\ ret.op # "School.setupAcademicStructure") => IsStraight(trace)
    /\ ret.op = "School.setupAcademicStructure" =>
          /\ Len(SelectSeq(trace, IsWrite)) <= 3
          /\ \E shape \in SetupShapes : \E n \in 1..Len(shape) : trace = SubSeq(shape, 1, n)
          /\ ret.status = "ok" => trace \in SetupShapes

\* a setupAcademicStructure call that wrote three times
SetupWroteThreeTimes ==
    /\ ret.op = "School.setupAcademicStructure"
    /\ ret.status = "ok"
    /\ Len(SelectSeq(trace, IsWrite)) = 3
    /\ trace[4] = Lookup("class", "where")

-----------------------------------------------------------------------------
(* The join requests of a school's administration *)

AdaEmail == <<"ada@example.org">>
DanEmail == <<"dan@example.org">>
BoEmail == <<"bo@example.org">>

\* SchoolAdministrationDto: a headmaster with no email or with one, a director of
\* studies with an email or none, two additional contacts of which one has no email
JoinDtos ==
    {[schoolId |-> s] @@ h @@ d @@ a :
        s \in 1..2,
        h \in {NoFields, [headmasterName |-> <<"Ada">>],
               [headmasterName |-> <<"Ada">>, headmasterEmail |-> AdaEmail,
                headmasterPhone |-> <<"0788">>]},
        d \in {NoFields, [DirectorOfStudies |-> <<"Dan">>, principalEmail |-> DanEmail]},
        a \in {NoFields,
               [additionalAdministration |->
                    <<[role |-> "SCHOOL_STAFF", name |-> <<"Bo">>, email |-> BoEmail],
                      [role |-> "SCHOOL_STAFF", name |-> <<"Cy">>, email |-> <<>>]>>]}}

InitJoin == Empty(MaxJoinWrites)

NextJoin ==
    \/ SchoolCreateBegin("p1", TRUE, TheSchoolDto, 1)
    \/ SchoolCreateWrite("p1", "ok", DistinctDraws)
    \/ \E valid \in BOOLEAN, dto \in JoinDtos, env \in {"ok", "writeFails"} :
            SendAdministrationJoinRequests(valid, dto, env)

SpecJoin == InitJoin /\ [][NextJoin]_vars

SendOp == "School.sendAdministrationJoinRequests"

\* the contact has an email
WithEmail(contact, field) == field \in DOMAIN contact /\ contact[field] # <<>>

\* the additional contacts of a DTO
AdditionalOf(dto) ==
    IF "additionalAdministration" \in DOMAIN dto THEN dto.additionalAdministration ELSE <<>>

\* the number of contacts of a DTO that have an email
ContactsWithEmail(dto) ==
    (IF WithEmail(dto, "headmasterEmail") THEN 1 ELSE 0)
    + (IF WithEmail(dto, "principalEmail") THEN 1 ELSE 0)
    + Cardinality({i \in 1..Len(AdditionalOf(dto)) : WithEmail(AdditionalOf(dto)[i], "email")})

\* the requests the last call wrote: the last `attempted` rows of the table
Submitted == SubSeq(joinRequests, Len(joinRequests) - ret.rows[1].attempted + 1, Len(joinRequests))

\* the requests among `requests` for the contact with email `email`
RequestsFor(requests, email) == {i \in 1..Len(requests) : requests[i].requesterEmail = email}

\* C11: for an existing school sendAdministrationJoinRequests submits one request per
\* contact that has an email and none for a contact without one, every request with
\* the school's id and no user, the headmaster's and the principal's with role
\* TEACHER and an additional contact's with its own role; attempted is the number
\* of requests submitted and created does not exceed it.
OneRequestPerContactWithEmail ==
    (ret.op = SendOp /\ ret.status = "ok") =>
        LET dto == ret.input.dto
            additional == AdditionalOf(dto)
        IN  /\ dto.schoolId \in DOMAIN schools
            /\ ret.rows[1].attempted = ContactsWithEmail(dto)
            /\ ret.rows[1].created <= ret.rows[1].attempted
            /\ Len(Submitted) = ContactsWithEmail(dto)
            /\ \A i \in 1..Len(Submitted) :
                  /\ Submitted[i].schoolId = dto.schoolId
                  /\ Submitted[i].userId = 0
                  /\ Submitted[i].requesterEmail # <<>>
            /\ \A field \in {"headmasterEmail", "principalEmail"} :
                  WithEmail(dto, field) =>
                      /\ Cardinality(RequestsFor(Submitted, dto[field])) = 1
                      /\ \A i \in RequestsFor(Submitted, dto[field]) :
                            Submitted[i].requestedRole = "TEACHER"
            /\ \A j \in 1..Len(additional) :
                  WithEmail(additional[j], "email") =>
                      /\ Cardinality(RequestsFor(Submitted, additional[j].email)) = 1
                      /\ \A i \in RequestsFor(Submitted, additional[j].email) :
                            Submitted[i].requestedRole = additional[j].role

\* a headmaster, a director of studies and an additional contact with emails, a
\* headmaster or an additional contact without: three or two requests submitted
SomeContactsWithoutEmail ==
    /\ ret.op = SendOp
    /\ ret.status = "ok"
    /\ ret.rows[1].attempted >= 2
    /\ \/ \E j \in 1..Len(AdditionalOf(ret.input.dto)) :
             ~WithEmail(AdditionalOf(ret.input.dto)[j], "email")
       \/ ("headmasterName" \in DOMAIN ret.input.dto /\ ~WithEmail(ret.input.dto, "headmasterEmail"))

\* C12: a failing sendAdministrationJoinRequests call writes no join request and
\* throws BadRequestException for invalid input, NotFoundException for a schoolId
\* with no school, BadRequestException when no contact has an email and
\* InternalServerErrorException when the bulk write fails.
SendReportsTheSpecificError ==
    ret.op = SendOp =>
        LET dto == ret.input.dto
            expected ==
                IF ~ret.input.valid THEN BadRequest
                ELSE IF dto.schoolId \notin DOMAIN schools THEN NotFound
                ELSE IF ContactsWithEmail(dto) = 0 THEN BadRequest
                ELSE IF ret.input.env = "writeFails" THEN InternalError
                ELSE "ok"
        IN  /\ ret.status = expected
            /\ ret.status # "ok" => ~ret.wrote

\* the bulk write of a valid call for an existing school failed
BulkWriteFailed ==
    /\ ret.op = SendOp
    /\ ret.status = InternalError
    /\ ret.input.valid
    /\ ret.input.dto.schoolId \in DOMAIN schools
    /\ ContactsWithEmail(ret.input.dto) > 0

-----------------------------------------------------------------------------
(* The connections of a new class *)

\* CreateClassInput: a class of a teacher; a class of a student and a class of a
\* creator that does not exist, both with an image; a class of the school with its
\* teacher or with a teacher that does not exist; a class of the school alone with
\* an image; a class with no connection
EnrolDtos ==
    {[name |-> <<"Chess">>, creatorId |-> 3],
     [name |-> <<"Chess">>, creatorId |-> 4, image |-> DataImage],
     [name |-> <<"Chess">>, creatorId |-> 9, image |-> DataImage],
     [name |-> <<"Chess">>, schoolId |-> 1, image |-> DataImage],
     [name |-> <<"Chess">>]}
    \cup {[name |-> <<"Chess">>, schoolId |-> 1, creatorId |-> 3, classTeacherId |-> k,
           username |-> <<"chess">>] : k \in {1, 2}}

InitEnrol == Empty(MaxEnrolWrites)

NextEnrol ==
    \/ SchoolCreateBegin("p1", TRUE, TheSchoolDto, 1)
    \/ SchoolCreateWrite("p1", "ok", DistinctDraws)
    \/ \E valid \in BOOLEAN, dto \in EnrolDtos, env \in {"ok", "uploadFails", "writeFails"},
          code \in ClassCodeDraws : ClassCreate(valid, dto, env, code)

SpecEnrol == InitEnrol /\ [][NextEnrol]_vars

\* the connections a CreateClassInput supplies
SuppliedConnections(dto) == {k \in {"schoolId", "creatorId", "classTeacherId"} : SuppliedId(dto, k)}

\* the supplied connections of a CreateClassInput that refer to no row
MissingConnections(dto) ==
    {k \in SuppliedConnections(dto) :
        \/ k = "schoolId" /\ dto[k] \notin DOMAIN schools
        \/ k = "creatorId" /\ dto[k] \notin DOMAIN Users
        \/ k = "classTeacherId" /\ dto[k] \notin Teachers}

\* the creator of a CreateClassInput exists and may not create a class
DisallowedCreator(dto) ==
    /\ SuppliedId(dto, "creatorId")
    /\ dto.creatorId \in DOMAIN Users
    /\ Users[dto.creatorId] \notin {"TEACHER", "SCHOOL_ADMIN", "ADMIN"}

\* a CreateClassInput that may be written
MayCreateClass(dto) ==
    /\ SuppliedConnections(dto) # {}
    /\ MissingConnections(dto) = {}
    /\ ~DisallowedCreator(dto)

\* C13: ClassService.create with valid input writes a class only when a connection
\* is supplied, every supplied one exists and the creator's role is allowed, and the
\* created class is connected to exactly the supplied ones; otherwise it writes
\* nothing, uploads nothing and throws NotFoundException for a missing school, user
\* or teacher and BadRequestException for no connection or a disallowed role.
ClassCreatedOnlyWithItsConnections ==
    (ret.op = "Class.create" /\ ret.input.valid) =>
        LET dto == ret.input.dto
            connected(k) == IF SuppliedId(dto, k) THEN dto[k] ELSE 0
        IN  /\ ret.wrote => (ret.status = "ok" /\ MayCreateClass(dto))
            /\ ret.status = "ok" =>
                  /\ MayCreateClass(dto)
                  /\ ret.wrote
                  /\ ret.rows[1].id \in DOMAIN classes
                  /\ classes[ret.rows[1].id].schoolId = connected("schoolId")
                  /\ classes[ret.rows[1].id].creatorId = connected("creatorId")
                  /\ classes[ret.rows[1].id].primaryTeacherId = connected("classTeacherId")
            /\ ~MayCreateClass(dto) =>
                  /\ ~ret.wrote
                  /\ ~ret.uploaded
                  /\ ret.status \in {NotFound, BadRequest}
                  /\ ret.status = NotFound => MissingConnections(dto) # {}
                  /\ ret.status = BadRequest =>
                        (SuppliedConnections(dto) = {} \/ DisallowedCreator(dto))
                  /\ (MissingConnections(dto) # {} /\ ~DisallowedCreator(dto)) =>
                        ret.status = NotFound
                  /\ (MissingConnections(dto) = {}) => ret.status = BadRequest

\* a class connected to a school, a creator and a teacher has been created, and a
\* later call with an image for a creator that does not exist has failed
ClassRefusedAfterOneCreated ==
    /\ ret.op = "Class.create"
    /\ ret.input.valid
    /\ ret.status = NotFound
    /\ Has(ret.input.dto, "image")
    /\ \E c \in DOMAIN classes :
          classes[c].schoolId # 0 /\ classes[c].creatorId # 0 /\ classes[c].primaryTeacherId # 0

-----------------------------------------------------------------------------
(* ClassService.update and remove for a class or a teacher that does not exist *)

\* the step ends a call of `op`
Ends(op) == (ret' # ret \/ clock' # clock) /\ ret'.op = op

\* C14: ClassService.update (with valid input) and ClassService.remove for an id
\* with no class throw NotFoundException, write nothing to the database and delete
\* or upload no image; ClassService.update of an existing class with a
\* classTeacherId of no teacher throws NotFoundException.
MissingClassOrTeacherNotFound ==
    [][/\ ((Ends("Class.update") \/ Ends("Class.remove"))
             /\ ret'.input.valid /\ ret'.input.id \notin DOMAIN classes)
          => /\ ret'.status = NotFound
             /\ classes' = classes
             /\ storage' = storage
             /\ uploads' = uploads
       /\ (Ends("Class.update") /\ ret'.input.valid /\ ret'.input.id \in DOMAIN classes
             /\ SuppliedId(ret'.input.dto, "classTeacherId")
             /\ ret'.input.dto.classTeacherId \notin Teachers)
          => ret'.status = NotFound]_vars

-----------------------------------------------------------------------------
(* Who may create a school *)

\* CreateSchoolDto: of an administrator, a school administrator, a student and a
\* creator that does not exist, with a logo to upload, a logo to keep or none
FoundingDtos ==
    CreateSchoolDtos({1, 2, 4, 9}, {<<"greenhill">>}, {DataImage, <<"https://", "img.example/a.png">>},
                     {"PUBLIC"})

InitFounding == Empty(MaxFoundingWrites)

NextFounding ==
    \/ \E valid \in BOOLEAN, dto \in FoundingDtos, nonce \in {1, 2} :
            SchoolCreateBegin("p1", valid, dto, nonce)
    \/ \E env \in {"ok", "uploadFails", "writeFails"} : SchoolCreateWrite("p1", env, DistinctDraws)

SpecFounding == InitFounding /\ [][NextFounding]_vars

\* the creator of a CreateSchoolDto exists and is a school administrator or an
\* administrator
CreatorMayFound(dto) ==
    dto.creatorId \in DOMAIN Users /\ Users[dto.creatorId] \in {"SCHOOL_ADMIN", "ADMIN"}

\* C15: SchoolService.create with valid input writes a school only for a creatorId
\* of an existing user with role SCHOOL_ADMIN or ADMIN; for a missing creator or
\* another role it throws BadRequestException, writes no school and uploads no logo.
OnlyAdministratorsCreateSchools ==
    (ret.op = "School.create" /\ ret.input.valid) =>
        /\ ret.wrote => CreatorMayFound(ret.input.dto)
        /\ ret.status = "ok" =>
              /\ CreatorMayFound(ret.input.dto)
              /\ ret.rows[1].creatorId = ret.input.dto.creatorId
        /\ ~CreatorMayFound(ret.input.dto) =>
              /\ ret.status = BadRequest
              /\ ~ret.wrote
              /\ ~ret.uploaded
    /\ \A s \in DOMAIN schools : Users[schools[s].creatorId] \in {"SCHOOL_ADMIN", "ADMIN"}

\* a school administrator has created a school, and a later call of a student or of
\* a creator that does not exist, with a logo to upload, has been refused
StudentRefusedWithLogo ==
    /\ ret.op = "School.create"
    /\ ret.input.valid
    /\ ret.status = BadRequest
    /\ ret.input.dto.creatorId \in {4, 9}
    /\ Has(ret.input.dto, "logo")
    /\ ret.input.dto.logo = DataImage
    /\ \E s \in DOMAIN schools : schools[s].creatorId = 2

-----------------------------------------------------------------------------
(* The images of the classes and the storage *)

\* the images that were uploaded and have been deleted from the storage
DeletedImages == {SecureUrl(n) : n \in 1..uploads} \ storage

\* C16: after any sequence of ClassService.create, update and remove calls, the
\* failing ones included, no class references an image that has been deleted from
\* the storage, and an update or remove that fails has left the class rows and the
\* stored images as they were.
ClassImagesConsistentWithStorage ==
    /\ \A c \in DOMAIN classes : classes[c].classImage \notin DeletedImages
    /\ (ret.op \in {"Class.update", "Class.remove"} /\ ret.status # "ok") =>
          (~ret.wrote /\ ~ret.stored)

-----------------------------------------------------------------------------
(* What ClassService.update changes *)

\* the fields of UpdateClassInput and the columns they are written to
UpdateColumns ==
    {<<"schoolId", "schoolId">>, <<"creatorId", "creatorId">>, <<"code", "classCode">>,
     <<"name", "name">>, <<"username", "username">>, <<"image", "classImage">>,
     <<"classType", "classType">>}

\* C17: a successful ClassService.update with a classTeacherId of an existing teacher
\* makes that teacher the primary teacher of the class; the columns of the fields
\* absent from the input keep their values, and no other class changes.
UpdateSetsThePrimaryTeacher ==
    [][(Ends("Class.update") /\ ret'.status = "ok") =>
          LET id == ret'.input.id
              dto == ret'.input.dto
          IN  /\ (SuppliedId(dto, "classTeacherId") /\ dto.classTeacherId \in Teachers) =>
                    classes'[id].primaryTeacherId = dto.classTeacherId
              /\ \A fc \in UpdateColumns :
                    ~Has(dto, fc[1]) => classes'[id][fc[2]] = classes[id][fc[2]]
              /\ DOMAIN classes' = DOMAIN classes
              /\ \A c \in (DOMAIN classes) \ {id} : classes'[c] = classes[c]]_vars

-----------------------------------------------------------------------------
(* A setupAcademicStructure call that fails *)

\* C18: a SchoolService.setupAcademicStructure call that fails at any step has
\* changed no table: no class and no module it created remains stored, and the
\* school's academicProfile, totalClasses and totalModules are as they were.
SetupAllOrNothing ==
    (ret.op = "School.setupAcademicStructure" /\ ret.status # "ok") => ~ret.wrote

-----------------------------------------------------------------------------
(* The updates of a school that has a logo *)

\* CreateSchoolDto of a school whose logo is held elsewhere
SchoolWithLogoDto == TheSchoolDto @@ [logo |-> <<"https://", "img.example/old.png">>]

\* UpdateSchoolDto: no field, a new username, a logo of each kind, both
ProfileUpdateDtos == UpdateSchoolDtos({<<"hill">>}, {}, Images, {})

InitProfile == Empty(MaxProfileWrites)

NextProfile ==
    \/ SchoolCreateBegin("p1", TRUE, SchoolWithLogoDto, 1)
    \/ SchoolCreateWrite("p1", "ok", DistinctDraws)
    \/ \E valid \in BOOLEAN, schoolId \in 1..2, dto \in ProfileUpdateDtos :
            SchoolUpdateBegin("p1", valid, schoolId, dto)
    \/ SchoolUpdateUsername("p1")
    \/ \E env \in {"ok", "uploadFails", "writeFails"} : SchoolUpdateWrite("p1", env)

SpecProfile == InitProfile /\ [][NextProfile]_vars

\* C19: a successful SchoolService.update stores the uploaded URL for a logo that
\* starts with data:image, the logo as given for one that starts with http:// or
\* https://, null for the empty string, and leaves the logo as it was for an absent
\* logo or any other string.
LogoFollowsTheInput ==
    [][(Ends("School.update") /\ ret'.status = "ok") =>
          LET dto == ret'.input.dto
              old == schools[ret'.input.id].logo
              new == schools'[ret'.input.id].logo
          IN  IF ~Has(dto, "logo") THEN new = old
              ELSE IF startsWith(dto.logo, "data:image")
              THEN uploads' = uploads + 1 /\ new = SecureUrl(uploads') /\ new \in storage'
              ELSE IF startsWith(dto.logo, "http://") \/ startsWith(dto.logo, "https://")
              THEN new = dto.logo
              ELSE IF dto.logo = <<>> THEN new = NullStr
              ELSE new = old]_vars

\* C20: SchoolService.update of an existing school with an input that has no field
\* writes nothing, the row and its updatedAt staying as they were, and returns the
\* existing school.
EmptyUpdateWritesNothing ==
    [][(Ends("School.update") /\ ret'.input.valid /\ ret'.input.id \in DOMAIN schools
          /\ ret'.input.dto = NoFields /\ ret'.input.env = "ok") =>
          /\ ret'.status = "ok"
          /\ schools' = schools
          /\ ret'.rows = <<schools[ret'.input.id]>>]_vars

====
